---- MODULE Spec2Model ----
(***************************************************************************)
(* Model of the beanbot ledger engine: the text patch engine               *)
(* (ledger/text_editor.py), the Ledger (ledger/ledger.py) and the Session  *)
(* (session/session.py).                                                   *)
(*                                                                         *)
(* A text file is a sequence of lines.  A line is a record                 *)
(*   [t, c, bbid]:  t = "txt" is a line of free text with token c,         *)
(*                  t = "dir" is the first line of a directive with        *)
(*                  content c and bbid metadata bbid (0 = no bbid),        *)
(*                  t = "eof" is the empty string "" (writes no bytes).    *)
(***************************************************************************)
EXTENDS Integers, Sequences, FiniteSets, TLC

\* ---------------------------------------------------------------- bounds
MaxLines == 2       \* lines of the file the text editor is opened on
MaxChanges == 3     \* ChangeSets accumulated by edit() before save_changes
MaxContent == 2     \* distinct directive contents (payloads)
MaxRand == 2        \* distinct values of the random 3-character bbid
MaxSid == 2         \* distinct tokens the ID generator can draw
MaxRecords == 2     \* records of the ledger file at construction
MaxOps == 4         \* operations called on one Ledger or Session
MaxFileLines == 3   \* lines of a file written by hand
MaxLoadOps == 2     \* operations called on a Ledger over such a file
MaxThreads == 2     \* threads that share one IDGenerator
MaxCalls == 3       \* calls the threads make on the IDGenerator
MaxDate == 3        \* days on which a transaction can be dated
MaxPostings == 2    \* postings of a transaction given to a comparator
MaxEntries == 2     \* existing entries and imported entries of one deduplicate call
MaxWindow == 1      \* days of window_days_head, window_days_tail, max_date_difference
MaxMetaValue == 2   \* values a metadata key can hold
MaxEdits == 3       \* assignments, resets and conversions on one MutableDirective

VARIABLES
    file,           \* the backing file on disk: a sequence of lines
    editor,         \* the TextEditor object: _lines, _file_n_lines, _changes
    ledger,         \* the Ledger object: its four maps and the line ranges
    session,        \* the Session object: new, existing and deleted entries
    generator,      \* the IDGenerator object: its _generated_ids
    threads,        \* the IDGenerator's _lock and the threads calling it
    dedup,          \* the arguments of a deduplicator or comparator call
    wrapper,        \* a MutableDirective, the directive it wraps and the dicts they refer to
    ops,            \* number of Ledger or Session operations called so far
    last            \* the last operation: its input, outcome and pre-state

vars == <<file, editor, ledger, session, generator, threads, dedup, wrapper, ops, last>>

\* sys.maxsize stands in for infinity; only ever compared, never added to.
INF == 1000000000

TxtLine(i) == [t |-> "txt", c |-> i, bbid |-> 0]
Sentinel == [t |-> "eof", c |-> 0, bbid |-> 0]

\* Python's s[a:b] on a 0-indexed list (a, b already non-negative).
Slice(s, a, b) == SubSeq(s, a + 1, IF b > Len(s) THEN Len(s) ELSE b)

NoOp == [op |-> "none", trace |-> <<>>, base |-> <<>>]
NoLedger == [existing_entries |-> <<>>, new_entries |-> <<>>, changed_entries |-> <<>>, deleted_entries |-> <<>>, entry_lineno_ranges |-> <<>>]
NoSession == [new_entries |-> <<>>, existing_entries |-> <<>>, deleted_entries |-> {}]
NoThreads == [lock |-> 0, th |-> <<>>, owned |-> <<>>]
NoDedup == [entries |-> <<>>, imported_entries |-> <<>>]
NoWrapper == [heap |-> <<>>]
NoEditor == [lines |-> <<>>, file_n_lines |-> 0, changes |-> <<>>, pc |-> "none"]

\* ------------------------------------------------------------- ChangeSet
\* position is <<p>> for INSERT, <<begin, end>> for DELETE and REPLACE and
\* <<>> (None) for APPEND; content is a sequence of lines (<<>> for DELETE).
ChangeSet(type, position, content) ==
    [type |-> type, position |-> position, content |-> content]

\* ------------------------------------------------------------ TextEditor
\* TextEditor.__init__ with _read_file: the lines of the file plus one ""
\* so that -1 addresses the position after the last line.
read_file(f) == f \o <<Sentinel>>

TextEditorNew(f) ==
    [lines |-> read_file(f), file_n_lines |-> Len(read_file(f)),
     changes |-> <<>>, pc |-> "open"]

get_position_tuple(change, file_n_lines) ==
    LET pos_tuple == IF change.type = "INSERT"
                        THEN <<change.position[1], change.position[1]>>
                     ELSE IF change.type \in {"DELETE", "REPLACE"}
                        THEN change.position
                     ELSE <<INF, INF>>
        begin == IF pos_tuple[1] < 0 THEN pos_tuple[1] + file_n_lines
                                     ELSE pos_tuple[1]
        end   == IF pos_tuple[2] < 0 THEN pos_tuple[2] + file_n_lines
                                     ELSE pos_tuple[2]
    IN  <<begin, end>>

\* Python's tuple order on (begin, end).
TupleLess(a, b) == a[1] < b[1] \/ (a[1] = b[1] /\ a[2] < b[2])

\* list.sort(key=...) is stable: x goes before the first strictly greater key.
RECURSIVE InsertByPosition(_, _, _)
InsertByPosition(x, s, n) ==
    IF s = <<>> THEN <<x>>
    ELSE IF TupleLess(get_position_tuple(x, n), get_position_tuple(Head(s), n))
         THEN <<x>> \o s
         ELSE <<Head(s)>> \o InsertByPosition(x, Tail(s), n)

RECURSIVE sort_changes_by_position(_, _)
sort_changes_by_position(chs, n) ==
    IF chs = <<>> THEN <<>>
    ELSE InsertByPosition(chs[Len(chs)],
             sort_changes_by_position(SubSeq(chs, 1, Len(chs) - 1), n), n)

\* Variant of _check_changes_non_overlapping without the double-insertion
\* assertion.
check_changes_non_overlapping_NoDoubleInsert(chs, n) ==
    \A idx \in 1..(Len(chs) - 1) :
        LET edit == get_position_tuple(chs[idx], n)
            next == get_position_tuple(chs[idx + 1], n)
        IN  ~(edit[1] <= next[1] /\ next[1] < edit[2])

\* TRUE iff no assertion of _check_changes_non_overlapping fails.
check_changes_non_overlapping(chs, n) ==
    \A idx \in 1..(Len(chs) - 1) :
        LET edit == get_position_tuple(chs[idx], n)
            next == get_position_tuple(chs[idx + 1], n)
        IN  /\ ~(edit[1] <= next[1] /\ next[1] < edit[2])
            /\ (edit[1] = edit[2]) =>
                   ~(next[1] = next[2] /\ next[2] = edit[1])

\* TRUE iff no assertion of _check_range_validity fails.
check_range_validity(chs, line_count, n) ==
    \A i \in 1..Len(chs) :
        LET position == get_position_tuple(chs[i], n)
        IN  \/ position = <<INF, INF>>
            \/ (0 <= position[1] /\ position[1] <= position[2]
                                 /\ position[2] < line_count)

\* Variant of the save_changes loop whose DELETE branch does not advance
\* line_idx past the deleted range.
RECURSIVE apply_changes_DeleteKeepsLines(_, _, _, _, _, _)
apply_changes_DeleteKeepsLines(lines, chs, n, line_idx, change_idx, out) ==
    IF ~(line_idx < Len(lines) - 1) THEN out
    ELSE IF change_idx >= Len(chs)
        THEN out \o Slice(lines, line_idx, Len(lines))
    ELSE LET change == chs[change_idx + 1]
             change_begin == get_position_tuple(change, n)[1]
             change_end == get_position_tuple(change, n)[2]
         IN  IF change_begin = INF
                THEN out \o Slice(lines, line_idx, Len(lines))
                                  \o change.content
             ELSE IF line_idx < change_begin
                THEN apply_changes_DeleteKeepsLines(lines, chs, n,
                         change_begin, change_idx,
                         out \o Slice(lines, line_idx, change_begin))
             ELSE IF change.type = "INSERT"
                THEN apply_changes_DeleteKeepsLines(lines, chs, n, line_idx,
                         change_idx + 1, out \o change.content)
             ELSE IF change.type = "DELETE"
                THEN apply_changes_DeleteKeepsLines(lines, chs, n, line_idx,
                         change_idx + 1, out)
             ELSE IF change.type = "REPLACE"
                THEN apply_changes_DeleteKeepsLines(lines, chs, n, change_end,
                         change_idx + 1, out \o change.content)
             ELSE apply_changes_DeleteKeepsLines(lines, chs, n, line_idx,
                         change_idx + 1, Append(out, change.content))

\* The while loop of save_changes; line_idx and change_idx are 0-indexed.
RECURSIVE apply_changes(_, _, _, _, _, _)
apply_changes(lines, chs, n, line_idx, change_idx, edited_lines) ==
    IF ~(line_idx < Len(lines) - 1) THEN edited_lines
    ELSE IF change_idx >= Len(chs)
        THEN edited_lines \o Slice(lines, line_idx, Len(lines))
    ELSE LET change == chs[change_idx + 1]
             change_begin == get_position_tuple(change, n)[1]
             change_end == get_position_tuple(change, n)[2]
         IN  IF change_begin = INF
                THEN edited_lines \o Slice(lines, line_idx, Len(lines))
                                  \o change.content
             ELSE IF line_idx < change_begin
                THEN apply_changes(lines, chs, n, change_begin, change_idx,
                         edited_lines \o Slice(lines, line_idx, change_begin))
             ELSE IF change.type = "INSERT"
                THEN apply_changes(lines, chs, n, line_idx, change_idx + 1,
                         edited_lines \o change.content)
             ELSE IF change.type = "DELETE"
                THEN apply_changes(lines, chs, n, change_end, change_idx + 1,
                         edited_lines)
             ELSE IF change.type = "REPLACE"
                THEN apply_changes(lines, chs, n, change_end, change_idx + 1,
                         edited_lines \o change.content)
             ELSE \* APPEND: edited_lines.append(content)
                  apply_changes(lines, chs, n, line_idx, change_idx + 1,
                         Append(edited_lines, change.content))

\* file.writelines: the "" added when reading writes no bytes.
writelines(edited_lines) == SelectSeq(edited_lines, LAMBDA l : l # Sentinel)

\* save_changes on an editor object: the sorted _changes, whether an
\* assertion was raised, and (if not) the lines written to the file.
save_changes(ed) ==
    LET n == ed.file_n_lines
        sorted == sort_changes_by_position(ed.changes, n)
        ok == /\ check_changes_non_overlapping(sorted, n)
              /\ check_range_validity(sorted, Len(ed.lines), n)
    IN  [changes |-> sorted,
         raised |-> ~ok,
         written |-> IF ok THEN writelines(
                         apply_changes(ed.lines, sorted, n, 0, 0, <<>>))
                     ELSE <<>>]

\* ------------------------------------------------------------ Python dict
\* A dict is the sequence of its items [k, v] in insertion order.
DictKeys(d) == {d[i].k : i \in 1..Len(d)}
DictHas(d, k) == \E i \in 1..Len(d) : d[i].k = k
DictGet(d, k) == d[CHOOSE i \in 1..Len(d) : d[i].k = k].v
DictSet(d, k, v) == IF DictHas(d, k) THEN [i \in 1..Len(d) |-> IF d[i].k = k THEN [k |-> k, v |-> v] ELSE d[i]] ELSE Append(d, [k |-> k, v |-> v])
DictDel(d, k) == SelectSeq(d, LAMBDA item : item.k # k)

\* ------------------------------------------------------------- Directive
\* A directive is [c, bbid, lineno]: its content (date, payee, postings,
\* ...), the bbid of its metadata (0 = none) and the lineno of its metadata
\* (0 = a directive built by the caller, without filename and lineno).
Directive(c, bbid, lineno) == [c |-> c, bbid |-> bbid, lineno |-> lineno]

Contents == 1..MaxContent
\* Tokens of the ID generator (8 hex digits) and random bbids of the Ledger
\* (3 alphanumeric characters) never coincide.
SessionIds == 1..MaxSid
RandomBbids == (MaxSid + 1)..(MaxSid + MaxRand)

\* printer(entry) + "\n": the directive with its metadata except filename
\* and lineno, followed by an empty line.
DirLine(c, bbid) == [t |-> "dir", c |-> c, bbid |-> bbid]
BlankLine == TxtLine(0)
EntryPrinter_NoMeta(entry) == <<DirLine(entry.c, 0), BlankLine>>

EntryPrinter(entry) == <<DirLine(entry.c, entry.bbid), BlankLine>>

\* stable_hash: sha256 of the printed entry, taken as collision free; a
\* digest is never a generator token or a random bbid.
stable_hash(entry) == entry.c * (MaxSid + MaxRand + 1) + entry.bbid

\* load_file: one directive per directive line, with its 1-indexed lineno.
RECURSIVE load_file(_, _)
load_file(f, i) == IF i > Len(f) THEN <<>> ELSE IF f[i].t = "dir" THEN <<Directive(f[i].c, f[i].bbid, i)>> \o load_file(f, i + 1) ELSE load_file(f, i + 1)

\* ---------------------------------------------------------------- Ledger
\* Ledger._get_entry_id.  r is the bbid drawn by the last turn of the
\* collision loop; the loop writes it into entry.meta, so the entry changes.
get_entry_id(L, entry, handle_collision, r) ==
    IF handle_collision /\ DictHas(L.existing_entries, stable_hash(entry))
    THEN [id |-> stable_hash([entry EXCEPT !.bbid = r]), modified |-> TRUE, entry |-> [entry EXCEPT !.bbid = r]]
    ELSE [id |-> stable_hash(entry), modified |-> FALSE, entry |-> entry]

\* The collision loop ends only with a hash that is not in existing; r is
\* the bbid it drew last, and the first random bbid when it never ran.
LoopEnds(L, entry, r) ==
    IF DictHas(L.existing_entries, stable_hash(entry))
    THEN ~DictHas(L.existing_entries, get_entry_id(L, entry, TRUE, r).id)
    ELSE r = MaxSid + 1

\* Ledger.add
Ledger_add_IntoExisting(L, entry, r) ==
    LET g == get_entry_id(L, entry, TRUE, r)
    IN  [L |-> [L EXCEPT !.existing_entries = DictSet(@, g.id, g.entry)], ret |-> g.id]

Ledger_add(L, entry, r) ==
    LET g == get_entry_id(L, entry, TRUE, r)
    IN  [L |-> [L EXCEPT !.new_entries = DictSet(@, g.id, g.entry)], ret |-> g.id]

\* Ledger.remove (the Session and the tests call it delete)
Ledger_remove(L, entry_id) ==
    LET in_existing == DictHas(L.existing_entries, entry_id)
        in_new == DictHas(L.new_entries, entry_id)
        in_changed == DictHas(L.changed_entries, entry_id)
        L1 == IF in_existing
              THEN [L EXCEPT !.existing_entries = DictDel(@, entry_id), !.deleted_entries = DictSet(@, entry_id, DictGet(L.existing_entries, entry_id))]
              ELSE L
        L2 == IF in_new THEN [L1 EXCEPT !.new_entries = DictDel(@, entry_id)] ELSE L1
        L3 == IF in_changed THEN [L2 EXCEPT !.changed_entries = DictDel(@, entry_id)] ELSE L2
    IN  [L |-> L3, ret |-> in_existing \/ in_new \/ in_changed]

\* Ledger.replace; ret = 0 stands for None.
Ledger_replace_NoCheck(L, entry_id, entry_new, r) ==
    LET g == get_entry_id(L, entry_new, TRUE, r)
    IN  [L |-> [L EXCEPT !.changed_entries = DictSet(@, entry_id, g.entry)], ret |-> g.id]

Ledger_replace(L, entry_id, entry_new, r) ==
    IF ~DictHas(L.existing_entries, entry_id) THEN [L |-> L, ret |-> 0]
    ELSE LET g == get_entry_id(L, entry_new, TRUE, r)
         IN  [L |-> [L EXCEPT !.changed_entries = DictSet(@, entry_id, g.entry)], ret |-> g.id]

\* Ledger.dirty
Ledger_dirty(L) == Len(L.new_entries) > 0 \/ Len(L.changed_entries) > 0 \/ Len(L.deleted_entries) > 0

\* Ledger._get_changesets_by_file for the main file: the ChangeSets in the
\* order they are built, or the exception raised while building them.
ChangesetsOfNew(L) == [i \in 1..Len(L.new_entries) |-> ChangeSet("APPEND", <<>>, EntryPrinter(L.new_entries[i].v))]
ChangesetsOfChanged(L) == [i \in 1..Len(L.changed_entries) |-> ChangeSet("REPLACE", DictGet(L.entry_lineno_ranges, L.changed_entries[i].k), EntryPrinter(L.changed_entries[i].v))]
ChangesetsOfDeleted(L) == [i \in 1..Len(L.deleted_entries) |-> ChangeSet("DELETE", DictGet(L.entry_lineno_ranges, L.deleted_entries[i].k), <<>>)]

\* The exception of the first changed or deleted entry without a filename
\* in its metadata (assert) or without a stored line range (KeyError).
RaiseOfItem(L, item) == IF item.v.lineno = 0 THEN "AssertionError" ELSE IF ~DictHas(L.entry_lineno_ranges, item.k) THEN "KeyError" ELSE "none"

get_changesets_raises(L) ==
    LET items == L.changed_entries \o L.deleted_entries
        bad == {i \in 1..Len(items) : RaiseOfItem(L, items[i]) # "none"}
    IN  IF bad = {} THEN "none"
        ELSE RaiseOfItem(L, items[CHOOSE i \in bad : \A j \in bad : i <= j])

get_changesets_by_file(L) == ChangesetsOfNew(L) \o ChangesetsOfChanged(L) \o ChangesetsOfDeleted(L)

\* Ledger._commit_changes: a TextEditor over the file, edit, save_changes.
commit_changes(f, changesets) == save_changes([TextEditorNew(f) EXCEPT !.changes = changesets])

\* Ledger.save, "Update changed entries": updated_entries is the dict
\* object of _existing_entries, so every step taken before an exception
\* stays in the ledger.
RECURSIVE FoldChanged(_, _)
FoldChanged(L, i) ==
    IF i > Len(L.changed_entries) THEN [L |-> [L EXCEPT !.changed_entries = <<>>], raised |-> "none"]
    ELSE LET entry_id_old == L.changed_entries[i].k
             entry == L.changed_entries[i].v
             entry_id_new == get_entry_id(L, entry, FALSE, 0).id
         IN  IF DictHas(L.existing_entries, entry_id_new) THEN [L |-> L, raised |-> "AssertionError"]
             ELSE IF ~DictHas(L.existing_entries, entry_id_old)
                  THEN [L |-> [L EXCEPT !.existing_entries = DictSet(@, entry_id_new, entry)], raised |-> "KeyError"]
             ELSE FoldChanged([L EXCEPT !.existing_entries = DictDel(DictSet(@, entry_id_new, entry), entry_id_old)], i + 1)

\* Ledger.save, "Remove deleted entries".
RECURSIVE FoldDeleted(_, _)
FoldDeleted(L, i) ==
    IF i > Len(L.deleted_entries) THEN [L |-> [L EXCEPT !.deleted_entries = <<>>], raised |-> "none"]
    ELSE IF ~DictHas(L.existing_entries, L.deleted_entries[i].k) THEN [L |-> L, raised |-> "KeyError"]
    ELSE FoldDeleted([L EXCEPT !.existing_entries = DictDel(@, L.deleted_entries[i].k)], i + 1)

\* Ledger.save, "Add new entries".
RECURSIVE FoldNew(_, _)
FoldNew(L, i) ==
    IF i > Len(L.new_entries) THEN [L EXCEPT !.new_entries = <<>>]
    ELSE FoldNew([L EXCEPT !.existing_entries = DictSet(@, L.new_entries[i].k, L.new_entries[i].v)], i + 1)

\* Ledger.save: the ledger and the file afterwards, and the exception
\* raised ("none" when save returns).
Ledger_save(L, f) ==
    IF ~Ledger_dirty(L) THEN [L |-> L, file |-> f, raised |-> "none"]
    ELSE IF get_changesets_raises(L) # "none" THEN [L |-> L, file |-> f, raised |-> get_changesets_raises(L)]
    ELSE LET w == commit_changes(f, get_changesets_by_file(L))
         IN  IF w.raised THEN [L |-> L, file |-> f, raised |-> "AssertionError"]
             ELSE LET c == FoldChanged(FoldNew(L, 1), 1)
                      d == FoldDeleted(c.L, 1)
                  IN  IF c.raised # "none" THEN [L |-> c.L, file |-> w.written, raised |-> c.raised]
                      ELSE [L |-> d.L, file |-> w.written, raised |-> d.raised]

\* Ledger._extract_lineno_ranges: the sorted linenos of the existing
\* entries, the lineno that follows each (0 after the last), the ranges.
RECURSIVE InsertSorted(_, _)
InsertSorted(x, sq) == IF sq = <<>> THEN <<x>> ELSE IF x < Head(sq) THEN <<x>> \o sq ELSE <<Head(sq)>> \o InsertSorted(x, Tail(sq))

RECURSIVE SortedLinenos(_, _)
SortedLinenos(existing, i) == IF i > Len(existing) THEN <<>> ELSE InsertSorted(existing[i].v.lineno, SortedLinenos(existing, i + 1))

next_linenos(linenos, lineno) ==
    IF lineno = linenos[Len(linenos)] THEN 0
    ELSE linenos[(CHOOSE idx \in 1..(Len(linenos) - 1) : linenos[idx] = lineno /\ \A j \in 1..(Len(linenos) - 1) : linenos[j] = lineno => j <= idx) + 1]

extract_lineno_ranges_EndNotShifted(existing) ==
    LET linenos == SortedLinenos(existing, 1)
    IN  [i \in 1..Len(existing) |-> [k |-> existing[i].k, v |-> <<existing[i].v.lineno - 1, next_linenos(linenos, existing[i].v.lineno)>>]]

extract_lineno_ranges(existing) ==
    LET linenos == SortedLinenos(existing, 1)
    IN  [i \in 1..Len(existing) |-> [k |-> existing[i].k, v |-> <<existing[i].v.lineno - 1, next_linenos(linenos, existing[i].v.lineno) - 1>>]]

\* Ledger.load, "Process entries": entries[i..] are put into L; rnd[j] is
\* the bbid the collision loop ends with for the j-th entry.
RECURSIVE ProcessEntries(_, _, _, _)
ProcessEntries(L, entries, i, rnd) ==
    IF i > Len(entries) THEN L
    ELSE LET entry == entries[i]
             entry_id == get_entry_id(L, entry, FALSE, 0).id
             g == get_entry_id(L, entry, TRUE, rnd[i])
             L1 == IF DictHas(L.existing_entries, entry_id)
                   THEN [L EXCEPT !.existing_entries = DictSet(@, g.id, entry), !.changed_entries = DictSet(@, g.id, g.entry)]
                   ELSE L
         IN  ProcessEntries([L1 EXCEPT !.existing_entries = DictSet(@, entry_id, entry)], entries, i + 1, rnd)

\* The collision loops of load end: no regenerated hash is in existing.
RECURSIVE LoadLoopsEnd(_, _, _, _)
LoadLoopsEnd(L, entries, i, rnd) ==
    IF i > Len(entries) THEN TRUE
    ELSE /\ LoopEnds(L, entries[i], rnd[i])
         /\ LoadLoopsEnd(ProcessEntries(L, SubSeq(entries, 1, i), i, rnd), entries, i + 1, rnd)

\* Ledger.load
Ledger_load(f, rnd) ==
    LET L == ProcessEntries(NoLedger, load_file(f, 1), 1, rnd)
    IN  [L EXCEPT !.entry_lineno_ranges = extract_lineno_ranges(L.existing_entries)]

\* ----------------------------------------------------------- IDGenerator
max_attempts == 10

\* IDGenerator.generate made k draws, the last of which is x: the earlier
\* draws were all issued IDs, and the loop stopped at x because x is not
\* issued or because k = max_attempts.
generate_draws(ids, k, x) == k \in 1..max_attempts /\ (k > 1 => ids # {}) /\ (k < max_attempts => x \notin ids)

\* IDGenerator.generate; ret = 0 with raised stands for the RuntimeError.
generate(ids, k, x) == IF k = max_attempts THEN [raised |-> TRUE, ids |-> ids, ret |-> 0] ELSE [raised |-> FALSE, ids |-> ids \cup {x}, ret |-> x]

\* IDGenerator.exists
exists(ids, id_value) == id_value \in ids

\* ------------------------------------------------------ MutableDirective
\* The wrapper: _original_directive, _mutable_directive and _id (0 = None).
MutableDirective(directive, id) == [orig |-> directive, cur |-> directive, id |-> id]
to_mutable(directive) == MutableDirective(directive, 0)
to_immutable(w) == IF w.id # 0 THEN [w.cur EXCEPT !.bbid = w.id] ELSE w.cur
MutableDirective_dirty(w) == w.cur # w.orig
MutableDirective_reset(w) == [w EXCEPT !.cur = w.orig]

\* --------------------------------------------------------------- Session
\* Ledger.has_entry
Ledger_has_entry(L, id) == DictHas(L.existing_entries, id)

\* Session.add of a Directive, or of a MutableDirective without an id
Session_add(S, ids, entry, k, x) ==
    LET g == generate(ids, k, x)
    IN  IF g.raised THEN [S |-> S, ids |-> ids, ret |-> 0, raised |-> "RuntimeError"]
        ELSE [S |-> [S EXCEPT !.new_entries = DictSet(@, g.ret, MutableDirective(entry, g.ret))], ids |-> g.ids, ret |-> g.ret, raised |-> "none"]

\* Session.add of a MutableDirective that carries an id
Session_add_with_id(S, ids, w) ==
    IF exists(ids, w.id) THEN [S |-> S, ids |-> ids, ret |-> 0, raised |-> "ValueError"]
    ELSE [S |-> [S EXCEPT !.new_entries = DictSet(@, w.id, w)], ids |-> ids, ret |-> w.id, raised |-> "none"]

\* Session.delete
Session_delete(S, L, id) ==
    IF id \in S.deleted_entries THEN [S |-> S, ret |-> TRUE]
    ELSE IF DictHas(S.new_entries, id) THEN [S |-> [S EXCEPT !.new_entries = DictDel(@, id)], ret |-> TRUE]
    ELSE IF DictHas(S.existing_entries, id) THEN [S |-> [S EXCEPT !.existing_entries = DictDel(@, id), !.deleted_entries = @ \cup {id}], ret |-> TRUE]
    ELSE IF Ledger_has_entry(L, id) THEN [S |-> [S EXCEPT !.deleted_entries = @ \cup {id}], ret |-> TRUE]
    ELSE [S |-> S, ret |-> FALSE]

\* Session.rollback
Session_rollback(S) == [new_entries |-> <<>>, deleted_entries |-> {}, existing_entries |-> [i \in 1..Len(S.existing_entries) |-> [k |-> S.existing_entries[i].k, v |-> MutableDirective_reset(S.existing_entries[i].v)]]]

\* Session.dirty
Session_dirty(S) == Len(S.new_entries) > 0 \/ S.deleted_entries # {} \/ \E i \in 1..Len(S.existing_entries) : MutableDirective_dirty(S.existing_entries[i].v)

\* Session.commit, "Add new entries to the ledger"; rnd[i] is the bbid the
\* collision loop of the i-th Ledger call ends with.
RECURSIVE CommitAdds(_, _, _, _)
CommitAdds(L, S, i, rnd) == IF i > Len(S.new_entries) THEN L ELSE CommitAdds(Ledger_add(L, to_immutable(S.new_entries[i].v), rnd[i]).L, S, i + 1, rnd)

\* Session.commit, "Delete entries from the ledger", in the order the set
\* is iterated.
RECURSIVE CommitDeletes(_, _, _)
CommitDeletes(L, order, i) == IF i > Len(order) THEN L ELSE CommitDeletes(Ledger_remove(L, order[i]).L, order, i + 1)

\* Session.commit, "Update existing entries in the ledger".
RECURSIVE CommitReplaces(_, _, _, _)
CommitReplaces(L, S, i, rnd) ==
    IF i > Len(S.existing_entries) THEN L
    ELSE IF MutableDirective_dirty(S.existing_entries[i].v)
         THEN CommitReplaces(Ledger_replace(L, S.existing_entries[i].k, to_immutable(S.existing_entries[i].v), rnd[Len(S.new_entries) + i]).L, S, i + 1, rnd)
         ELSE CommitReplaces(L, S, i + 1, rnd)

\* The ledger after the add, delete and replace calls of commit.
CommitStaged(L, S, order, rnd) == CommitReplaces(CommitDeletes(CommitAdds(L, S, 1, rnd), order, 1), S, 1, rnd)

\* Every collision loop of the add and replace calls ends with its rnd.
RECURSIVE CommitLoopsEnd(_, _, _, _, _)
CommitLoopsEnd(L, S, order, i, rnd) ==
    IF i > Len(S.new_entries) + Len(S.existing_entries) THEN TRUE
    ELSE IF i <= Len(S.new_entries)
         THEN /\ LoopEnds(CommitAdds(L, [S EXCEPT !.new_entries = SubSeq(@, 1, i - 1)], 1, rnd), to_immutable(S.new_entries[i].v), rnd[i])
              /\ CommitLoopsEnd(L, S, order, i + 1, rnd)
         ELSE LET j == i - Len(S.new_entries)
                  Lj == CommitReplaces(CommitDeletes(CommitAdds(L, S, 1, rnd), order, 1), [S EXCEPT !.existing_entries = SubSeq(@, 1, j - 1)], 1, rnd)
              IN  /\ (MutableDirective_dirty(S.existing_entries[j].v) /\ DictHas(Lj.existing_entries, S.existing_entries[j].k)) => LoopEnds(Lj, to_immutable(S.existing_entries[j].v), rnd[i])
                  /\ ~(MutableDirective_dirty(S.existing_entries[j].v) /\ DictHas(Lj.existing_entries, S.existing_entries[j].k)) => rnd[i] = MaxSid + 1
                  /\ CommitLoopsEnd(L, S, order, i + 1, rnd)

\* Session.commit after its add, delete and replace calls: sv is what
\* Ledger.save() left and ld the ledger Ledger.load() builds from the saved
\* file.  The result is the session, the ledger and the file afterwards,
\* and the exception raised ("none" when commit returns).
Session_commit(S, sv, ld) ==
    IF sv.raised # "none" THEN [S |-> S, L |-> sv.L, file |-> sv.file, raised |-> sv.raised]
    ELSE IF Ledger_dirty(ld) THEN [S |-> S, L |-> ld, file |-> sv.file, raised |-> "AssertionError"]
    ELSE [S |-> NoSession, L |-> ld, file |-> sv.file, raised |-> "none"]

\* The statements Session.commit executes, in order: one ledger call per
\* turn of its three loops, save, load, the assertion, and the clearing of
\* the staging collections; an exception ends the sequence.
Session_commit_calls(S, sv, ld) ==
    LET n_replace == Cardinality({i \in 1..Len(S.existing_entries) : MutableDirective_dirty(S.existing_entries[i].v)})
        loops == [i \in 1..Len(S.new_entries) |-> "add"] \o [i \in 1..Cardinality(S.deleted_entries) |-> "delete"] \o [i \in 1..n_replace |-> "replace"]
    IN  IF sv.raised # "none" THEN loops \o <<"save">>
        ELSE IF Ledger_dirty(ld) THEN loops \o <<"save", "load", "assert">>
        ELSE loops \o <<"save", "load", "assert", "clear">>

\* ------------------------------------------- specification: text editor
\* Positions a caller passes to INSERT: relative to the end of the file
\* (-1) or absolute; 1 and 2 lie past the end of the shorter files.
InsertPositions == {0 - 1, 0, 1, 2}

\* Ranges a caller passes to DELETE and REPLACE: <<begin, end>> with an
\* absolute end after begin, or the relative end -1.
Ranges == {<<0, 1>>, <<0, 2>>, <<1, 2>>, <<0, 0 - 1>>, <<1, 0 - 1>>}

\* The content of the k-th accumulated change: a line unlike every
\* original line and every other change's content.
ContentOf(k) == <<TxtLine(MaxLines + k)>>

ChangeInputs(k) ==
    {ChangeSet("INSERT", <<p>>, ContentOf(k)) : p \in InsertPositions}
    \cup {ChangeSet("DELETE", r, <<>>) : r \in Ranges}
    \cup {ChangeSet("REPLACE", r, ContentOf(k)) : r \in Ranges}
    \cup {ChangeSet("APPEND", <<>>, ContentOf(k))}

OriginalFile(n) == [i \in 1..n |-> TxtLine(i)]

InitEditor ==
    /\ \E n \in 0..MaxLines : file = OriginalFile(n)
    /\ editor = TextEditorNew(file)
    /\ ledger = NoLedger
    /\ session = NoSession
    /\ generator = {}
    /\ threads = NoThreads
    /\ dedup = NoDedup
    /\ wrapper = NoWrapper
    /\ ops = 0
    /\ last = NoOp

\* TextEditor.edit(change)
Edit(change) ==
    /\ editor.pc = "open"
    /\ Len(editor.changes) < MaxChanges
    /\ editor' = [editor EXCEPT !.changes = Append(@, change)]
    /\ UNCHANGED <<file, ledger, session, generator, ops, last, threads, dedup, wrapper>>

\* TextEditor.save_changes()
SaveChanges ==
    /\ editor.pc = "open"
    /\ LET r == save_changes(editor)
       IN  /\ editor' = [editor EXCEPT !.changes = r.changes,
                                       !.pc = IF r.raised THEN "raised"
                                                          ELSE "saved"]
           /\ file' = IF r.raised THEN file ELSE r.written
           /\ last' = [op |-> "save_changes", raised |-> r.raised,
                       batch |-> editor.changes, file_before |-> file,
                       n_lines |-> editor.file_n_lines]
           /\ UNCHANGED <<ledger, session, generator, ops, threads, dedup, wrapper>>

NextEditor ==
    \/ \E c \in ChangeInputs(Len(editor.changes) + 1) : Edit(c)
    \/ SaveChanges

SpecEditor == InitEditor /\ [][NextEditor]_vars

\* ----------------------------------------------- specification: ledger
\* A ledger file of records: each is its directive line, a line of its
\* own (a posting or a comment) and an empty line.
LedgerFile(recs) == [j \in 1..(3 * Len(recs)) |-> IF j % 3 = 1 THEN DirLine(recs[(j + 2) \div 3], 0) ELSE IF j % 3 = 2 THEN TxtLine((j + 2) \div 3) ELSE BlankLine]

InitialFiles == {LedgerFile(recs) : recs \in UNION {[1..k -> Contents] : k \in 0..MaxRecords}}

\* The bbids the collision loops of one load end with.
LoadDraws(f) == {rnd \in [1..Len(load_file(f, 1)) -> RandomBbids] : LoadLoopsEnd(NoLedger, load_file(f, 1), 1, rnd)}

KnownIds(L) == DictKeys(L.existing_entries) \cup DictKeys(L.new_entries) \cup DictKeys(L.changed_entries) \cup DictKeys(L.deleted_entries)

\* An ID no record has.
UnknownId == 0

\* Ledger.__init__: _init_state and load
InitLedger ==
    /\ file \in InitialFiles
    /\ \E rnd \in LoadDraws(file) : ledger = Ledger_load(file, rnd)
    /\ editor = NoEditor
    /\ session = NoSession
    /\ generator = {}
    /\ threads = NoThreads
    /\ dedup = NoDedup
    /\ wrapper = NoWrapper
    /\ ops = 0
    /\ last = NoOp

\* The ID an add returned and the directive it staged, when the operation
\* before this one was that add.
AddedBy(l, L) == IF l.op = "add" /\ DictHas(L.new_entries, l.ret) THEN <<[id |-> l.ret, entry |-> DictGet(L.new_entries, l.ret)]>> ELSE <<>>

\* Ledger.add(entry) with a directive built by the caller
LedgerAdd(entry, r) ==
    /\ ops < MaxOps
    /\ Len(ledger.existing_entries) + Len(ledger.new_entries) <= MaxRecords
    /\ LoopEnds(ledger, entry, r)
    /\ ledger' = Ledger_add(ledger, entry, r).L
    /\ last' = [op |-> "add", entry |-> entry, ret |-> Ledger_add(ledger, entry, r).ret, raised |-> "none", pre |-> ledger, file_before |-> file, trace |-> Append(last.trace, "add")]
    /\ ops' = ops + 1
    /\ UNCHANGED <<file, editor, session, generator, threads, dedup, wrapper>>

\* Ledger.remove(entry_id)
LedgerRemove(entry_id) ==
    /\ ops < MaxOps
    /\ ledger' = Ledger_remove(ledger, entry_id).L
    /\ last' = [op |-> "remove", id |-> entry_id, ret |-> Ledger_remove(ledger, entry_id).ret, raised |-> "none", pre_add |-> IF last.op = "add" /\ last.ret = entry_id THEN <<last.pre>> ELSE <<>>, pre |-> ledger, file_before |-> file, trace |-> Append(last.trace, "remove")]
    /\ ops' = ops + 1
    /\ UNCHANGED <<file, editor, session, generator, threads, dedup, wrapper>>

\* Ledger.replace(entry_id, entry_new)
LedgerReplace(entry_id, entry_new, r) ==
    /\ ops < MaxOps
    /\ LoopEnds(ledger, entry_new, r)
    /\ ledger' = Ledger_replace(ledger, entry_id, entry_new, r).L
    /\ last' = [op |-> "replace", id |-> entry_id, entry |-> entry_new, ret |-> Ledger_replace(ledger, entry_id, entry_new, r).ret, raised |-> "none", pre |-> ledger, file_before |-> file, trace |-> Append(last.trace, "replace")]
    /\ ops' = ops + 1
    /\ UNCHANGED <<file, editor, session, generator, threads, dedup, wrapper>>

\* The directives a caller passes to replace(entry_id, .): the entry with
\* another content and the same metadata, or a directive of its own.
ReplaceInputs(L, entry_id) ==
    IF DictHas(L.existing_entries, entry_id)
    THEN {[DictGet(L.existing_entries, entry_id) EXCEPT !.c = c] : c \in Contents}
    ELSE {Directive(c, 0, 0) : c \in Contents}

\* Ledger.save()
LedgerSave ==
    /\ ops < MaxOps
    /\ ledger' = Ledger_save(ledger, file).L
    /\ file' = Ledger_save(ledger, file).file
    /\ last' = [op |-> "save", raised |-> Ledger_save(ledger, file).raised, pre |-> ledger, file_before |-> file, added |-> AddedBy(last, ledger), trace |-> Append(last.trace, "save")]
    /\ ops' = ops + 1
    /\ UNCHANGED <<editor, session, generator, threads, dedup, wrapper>>

\* Ledger.load()
LedgerLoad(rnd) ==
    /\ ops < MaxOps
    /\ ledger' = Ledger_load(file, rnd)
    /\ last' = [op |-> "load", raised |-> "none", pre |-> ledger, file_before |-> file, added |-> IF last.op = "save" /\ last.raised = "none" THEN last.added ELSE <<>>, trace |-> Append(last.trace, "load")]
    /\ ops' = ops + 1
    /\ UNCHANGED <<file, editor, session, generator, threads, dedup, wrapper>>

NextLedger ==
    \/ \E c \in Contents, r \in RandomBbids : LedgerAdd(Directive(c, 0, 0), r)
    \/ \E id \in KnownIds(ledger) \cup {UnknownId} : LedgerRemove(id)
    \/ \E id \in KnownIds(ledger) \cup {UnknownId}, r \in RandomBbids : \E e \in ReplaceInputs(ledger, id) : LedgerReplace(id, e, r)
    \/ LedgerSave
    \/ \E rnd \in LoadDraws(file) : LedgerLoad(rnd)

SpecLedger == InitLedger /\ [][NextLedger]_vars

\* ------------------------------------------------- specification: load
\* A line the parser reports an error for; it yields no directive.
ErrLine == [t |-> "err", c |-> 0, bbid |-> 0]

\* load_file: the errors of the parse.
parse_errors(f) == {i \in 1..Len(f) : f[i].t = "err"}

\* Files as a user writes them: directives without a bbid or with the bbid
\* an earlier save persisted, text before, between and after them, lines
\* that do not parse.
LoadLines == {DirLine(c, b) : c \in Contents, b \in {0, MaxSid + 1}} \cup {TxtLine(1), ErrLine}
LoadFiles == UNION {[1..k -> LoadLines] : k \in 0..MaxFileLines}

\* Ledger.__init__ over such a file.
InitLoad ==
    /\ file \in LoadFiles
    /\ \E rnd \in LoadDraws(file) : ledger = Ledger_load(file, rnd)
    /\ editor = NoEditor
    /\ session = NoSession
    /\ generator = {}
    /\ threads = NoThreads
    /\ dedup = NoDedup
    /\ wrapper = NoWrapper
    /\ ops = 0
    /\ last = NoOp

NextLoad ==
    \/ ops < MaxLoadOps /\ \E c \in Contents, r \in RandomBbids : LedgerAdd(Directive(c, 0, 0), r)
    \/ ops < MaxLoadOps /\ \E id \in KnownIds(ledger) \cup {UnknownId} : LedgerRemove(id)
    \/ ops < MaxLoadOps /\ \E rnd \in LoadDraws(file) : LedgerLoad(rnd)

SpecLoad == InitLoad /\ [][NextLoad]_vars

\* Loading the file again and again, nothing staged in between.
NextReload == ops < MaxLoadOps /\ \E rnd \in LoadDraws(file) : LedgerLoad(rnd)

SpecReload == InitLoad /\ [][NextReload]_vars

\* ------------------------------------------ specification: IDGenerator
Threads == 1..MaxThreads

\* A thread outside any call.  During a call: the method and its argument,
\* the locals id_val (0 = None) and n_attempt of generate, whether the
\* argument was issued when the call was made, and what the membership
\* test of the method saw; afterwards how the call ended.  The last step
\* that ended a call is recorded with the issued set it found.
IdleThread == [pc |-> "idle", op |-> "none", arg |-> 0, id_val |-> 0, n_attempt |-> 0, pre_in |-> FALSE, saw |-> FALSE, res |-> "none"]

\* `with self._lock`: a thread enters when no thread holds the lock.
lock_free_NotMutual(holder) == TRUE

lock_free(holder) == holder = 0

\* Leaving `with self._lock`, by return or by an exception: the lock is
\* released.
with_lock_exit_HeldOnRaise(holder, raised) == IF raised THEN holder ELSE 0

with_lock_exit(holder, raised) == 0

\* The loop condition of generate.
generate_continues(r, ids) == r.n_attempt < max_attempts /\ (r.id_val = 0 \/ r.id_val \in ids)

\* IDGenerator.__init__, and the threads that will call it.
InitIdGen ==
    /\ generator = {}
    /\ threads = [lock |-> 0, th |-> [t \in Threads |-> IdleThread], owned |-> [id \in SessionIds |-> 0]]
    /\ dedup = NoDedup
    /\ wrapper = NoWrapper
    /\ file = <<>>
    /\ editor = NoEditor
    /\ ledger = NoLedger
    /\ session = NoSession
    /\ ops = 0
    /\ last = NoOp

\* Thread t calls generate(), register(arg), unregister(arg) or exists(arg)
\* and waits for the lock.
Call(t, op, arg) ==
    /\ ops < MaxCalls
    /\ threads.th[t].pc = "idle"
    /\ threads' = [threads EXCEPT !.th[t] = [IdleThread EXCEPT !.pc = "acquire", !.op = op, !.arg = arg, !.pre_in = arg \in generator]]
    /\ ops' = ops + 1
    /\ last' = [op |-> "call", trace |-> <<>>, base |-> <<>>]
    /\ UNCHANGED <<file, editor, ledger, session, generator, dedup, wrapper>>

\* Thread t enters `with self._lock`.
Acquire(t) ==
    /\ threads.th[t].pc = "acquire"
    /\ lock_free(threads.lock)
    /\ threads' = [threads EXCEPT !.lock = t, !.th[t].pc = threads.th[t].op]
    /\ last' = [op |-> "acquire", trace |-> <<>>, base |-> <<>>]
    /\ UNCHANGED <<file, editor, ledger, session, generator, ops, dedup, wrapper>>

\* generate: one turn of the while loop draws the token x.
GenerateDraw(t, x) ==
    /\ threads.th[t].pc = "generate"
    /\ generate_continues(threads.th[t], generator)
    /\ threads' = [threads EXCEPT !.th[t].id_val = x, !.th[t].n_attempt = @ + 1]
    /\ last' = [op |-> "draw", trace |-> <<>>, base |-> <<>>]
    /\ UNCHANGED <<file, editor, ledger, session, generator, ops, dedup, wrapper>>

\* generate: the loop is left; RuntimeError when n_attempt == max_attempts.
GenerateLoopExit(t) ==
    /\ threads.th[t].pc = "generate"
    /\ ~generate_continues(threads.th[t], generator)
    /\ IF threads.th[t].n_attempt = max_attempts
       THEN /\ threads' = [threads EXCEPT !.lock = with_lock_exit(t, TRUE), !.th[t].pc = "idle", !.th[t].id_val = 0, !.th[t].n_attempt = 0, !.th[t].res = "raised"]
            /\ last' = [op |-> "generate_raise", t |-> t, id_val |-> threads.th[t].id_val, ids_before |-> generator, trace |-> <<>>, base |-> <<>>]
       ELSE /\ threads' = [threads EXCEPT !.th[t].pc = "generate_add", !.th[t].saw = threads.th[t].id_val \in generator]
            /\ last' = [op |-> "generate_exit", trace |-> <<>>, base |-> <<>>]
    /\ UNCHANGED <<file, editor, ledger, session, generator, ops, dedup, wrapper>>

\* generate: self._generated_ids.add(id_val); return id_val
GenerateAdd(t) ==
    /\ threads.th[t].pc = "generate_add"
    /\ generator' = generator \cup {threads.th[t].id_val}
    /\ threads' = [threads EXCEPT !.lock = with_lock_exit(t, FALSE), !.th[t].pc = "idle", !.th[t].res = "ok", !.th[t].id_val = 0, !.th[t].n_attempt = 0, !.owned[threads.th[t].id_val] = @ + 1]
    /\ last' = [op |-> "generate_return", t |-> t, id |-> threads.th[t].id_val, ids_before |-> generator, trace |-> <<>>, base |-> <<>>]
    /\ UNCHANGED <<file, editor, ledger, session, ops, dedup, wrapper>>

\* register: if id_value in self._generated_ids: raise RuntimeError
RegisterCheck(t) ==
    /\ threads.th[t].pc = "register"
    /\ IF threads.th[t].arg \in generator
       THEN /\ threads' = [threads EXCEPT !.lock = with_lock_exit(t, TRUE), !.th[t].pc = "idle", !.th[t].res = "raised", !.th[t].saw = TRUE]
            /\ last' = [op |-> "register_raise", t |-> t, id |-> threads.th[t].arg, ids_before |-> generator, trace |-> <<>>, base |-> <<>>]
       ELSE /\ threads' = [threads EXCEPT !.th[t].pc = "register_add", !.th[t].saw = FALSE]
            /\ last' = [op |-> "register_check", trace |-> <<>>, base |-> <<>>]
    /\ UNCHANGED <<file, editor, ledger, session, generator, ops, dedup, wrapper>>

\* register: self._generated_ids.add(id_value)
RegisterAdd(t) ==
    /\ threads.th[t].pc = "register_add"
    /\ generator' = generator \cup {threads.th[t].arg}
    /\ threads' = [threads EXCEPT !.lock = with_lock_exit(t, FALSE), !.th[t].pc = "idle", !.th[t].res = "ok", !.owned[threads.th[t].arg] = @ + 1]
    /\ last' = [op |-> "register_return", t |-> t, id |-> threads.th[t].arg, ids_before |-> generator, trace |-> <<>>, base |-> <<>>]
    /\ UNCHANGED <<file, editor, ledger, session, ops, dedup, wrapper>>

\* unregister: if id_value in self._generated_ids: ... else return False
UnregisterCheck(t) ==
    /\ threads.th[t].pc = "unregister"
    /\ IF threads.th[t].arg \in generator
       THEN /\ threads' = [threads EXCEPT !.th[t].pc = "unregister_remove", !.th[t].saw = TRUE]
            /\ last' = [op |-> "unregister_check", trace |-> <<>>, base |-> <<>>]
       ELSE /\ threads' = [threads EXCEPT !.lock = with_lock_exit(t, FALSE), !.th[t].pc = "idle", !.th[t].res = "false", !.th[t].saw = FALSE]
            /\ last' = [op |-> "unregister_false", t |-> t, id |-> threads.th[t].arg, ids_before |-> generator, trace |-> <<>>, base |-> <<>>]
    /\ UNCHANGED <<file, editor, ledger, session, generator, ops, dedup, wrapper>>

\* unregister: self._generated_ids.remove(id_value); return True.
\* set.remove raises KeyError for an element that is not in the set.
UnregisterRemove(t) ==
    /\ threads.th[t].pc = "unregister_remove"
    /\ IF threads.th[t].arg \in generator
       THEN /\ generator' = generator \ {threads.th[t].arg}
            /\ threads' = [threads EXCEPT !.lock = with_lock_exit(t, FALSE), !.th[t].pc = "idle", !.th[t].res = "true", !.owned[threads.th[t].arg] = @ - 1]
            /\ last' = [op |-> "unregister_true", t |-> t, id |-> threads.th[t].arg, ids_before |-> generator, trace |-> <<>>, base |-> <<>>]
       ELSE /\ generator' = generator
            /\ threads' = [threads EXCEPT !.lock = with_lock_exit(t, TRUE), !.th[t].pc = "idle", !.th[t].res = "raised"]
            /\ last' = [op |-> "unregister_raise", t |-> t, id |-> threads.th[t].arg, ids_before |-> generator, trace |-> <<>>, base |-> <<>>]
    /\ UNCHANGED <<file, editor, ledger, session, ops, dedup, wrapper>>

\* exists: return id_value in self._generated_ids
Exists(t) ==
    /\ threads.th[t].pc = "exists"
    /\ threads' = [threads EXCEPT !.lock = with_lock_exit(t, FALSE), !.th[t].pc = "idle", !.th[t].res = IF threads.th[t].arg \in generator THEN "true" ELSE "false", !.th[t].saw = threads.th[t].arg \in generator]
    /\ last' = [op |-> "exists_return", t |-> t, id |-> threads.th[t].arg, ids_before |-> generator, trace |-> <<>>, base |-> <<>>]
    /\ UNCHANGED <<file, editor, ledger, session, generator, ops, dedup, wrapper>>

NextIdGen ==
    \/ \E t \in Threads : Call(t, "generate", 0)
    \/ \E t \in Threads, x \in SessionIds : Call(t, "register", x)
    \/ \E t \in Threads, x \in SessionIds : Call(t, "unregister", x)
    \/ \E t \in Threads, x \in SessionIds : Call(t, "exists", x)
    \/ \E t \in Threads : Acquire(t)
    \/ \E t \in Threads, x \in SessionIds : GenerateDraw(t, x)
    \/ \E t \in Threads : GenerateLoopExit(t)
    \/ \E t \in Threads : GenerateAdd(t)
    \/ \E t \in Threads : RegisterCheck(t)
    \/ \E t \in Threads : RegisterAdd(t)
    \/ \E t \in Threads : UnregisterCheck(t)
    \/ \E t \in Threads : UnregisterRemove(t)
    \/ \E t \in Threads : Exists(t)

SpecIdGen == InitIdGen /\ [][NextIdGen]_vars

\* The steps of thread t inside a call. A thread that can take a step
\* is scheduled eventually; calls are made or not as the callers like.
ThreadStep(t) ==
    \/ Acquire(t)
    \/ \E x \in SessionIds : GenerateDraw(t, x)
    \/ GenerateLoopExit(t)
    \/ GenerateAdd(t)
    \/ RegisterCheck(t)
    \/ RegisterAdd(t)
    \/ UnregisterCheck(t)
    \/ UnregisterRemove(t)
    \/ Exists(t)

FairIdGen == InitIdGen /\ [][NextIdGen]_vars /\ \A t \in Threads : WF_vars(ThreadStep(t))

\* ---------------------------------------------- specification: session
\* The orders in which a set of IDs can be iterated.
Orders(ids) == {o \in [1..Cardinality(ids) -> ids] : \A i, j \in 1..Cardinality(ids) : o[i] = o[j] => i = j}

\* The bbids the collision loops of one commit end with.
CommitDraws(S, L, order) == {rnd \in [1..(Len(S.new_entries) + Len(S.existing_entries)) -> RandomBbids] : CommitLoopsEnd(L, S, order, 1, rnd)}

SessionKnownIds == KnownIds(ledger) \cup DictKeys(session.new_entries) \cup DictKeys(session.existing_entries) \cup session.deleted_entries

\* Session.__init__ over a ledger that has loaded its file, with the
\* ledger's ID generator.
InitSession ==
    /\ file \in InitialFiles
    /\ \E rnd \in LoadDraws(file) : ledger = Ledger_load(file, rnd)
    /\ editor = NoEditor
    /\ session = NoSession
    /\ generator = {}
    /\ threads = NoThreads
    /\ dedup = NoDedup
    /\ wrapper = NoWrapper
    /\ ops = 0
    /\ last = NoOp

\* session.add(directive)
SessionAdd(entry, k, x) ==
    /\ ops < MaxOps
    /\ generator # SessionIds
    /\ generate_draws(generator, k, x)
    /\ session' = Session_add(session, generator, entry, k, x).S
    /\ generator' = Session_add(session, generator, entry, k, x).ids
    /\ last' = [op |-> "add", ret |-> Session_add(session, generator, entry, k, x).ret, raised |-> Session_add(session, generator, entry, k, x).raised, pre |-> session, pre_ledger |-> ledger, file_before |-> file, base |-> last.base, trace |-> Append(last.trace, "add")]
    /\ ops' = ops + 1
    /\ UNCHANGED <<file, editor, ledger, threads, dedup, wrapper>>

\* session.add(mutable directive with an id)
SessionAddWithId(w) ==
    /\ ops < MaxOps
    /\ session' = Session_add_with_id(session, generator, w).S
    /\ generator' = Session_add_with_id(session, generator, w).ids
    /\ last' = [op |-> "add", id |-> w.id, ret |-> Session_add_with_id(session, generator, w).ret, raised |-> Session_add_with_id(session, generator, w).raised, pre |-> session, pre_ledger |-> ledger, file_before |-> file, base |-> last.base, trace |-> Append(last.trace, "add_with_id")]
    /\ ops' = ops + 1
    /\ UNCHANGED <<file, editor, ledger, threads, dedup, wrapper>>

\* session.existing_entries[id] = to_mutable(entry of the ledger)
SessionTrack(id) ==
    /\ ops < MaxOps
    /\ DictHas(ledger.existing_entries, id)
    /\ ~DictHas(session.existing_entries, id)
    /\ id \notin session.deleted_entries
    /\ session' = [session EXCEPT !.existing_entries = DictSet(@, id, to_mutable(DictGet(ledger.existing_entries, id)))]
    /\ last' = [op |-> "track", ret |-> id, raised |-> "none", pre |-> session, pre_ledger |-> ledger, file_before |-> file, base |-> DictSet(last.base, id, to_mutable(DictGet(ledger.existing_entries, id))), trace |-> Append(last.trace, "track")]
    /\ ops' = ops + 1
    /\ UNCHANGED <<file, editor, ledger, generator, threads, dedup, wrapper>>

\* session.existing_entries[id].<field> = c
SessionEdit(id, c) ==
    /\ ops < MaxOps
    /\ DictHas(session.existing_entries, id)
    /\ session' = [session EXCEPT !.existing_entries = DictSet(@, id, [DictGet(@, id) EXCEPT !.cur.c = c])]
    /\ last' = [op |-> "edit", ret |-> id, raised |-> "none", pre |-> session, pre_ledger |-> ledger, file_before |-> file, base |-> last.base, trace |-> Append(last.trace, "edit")]
    /\ ops' = ops + 1
    /\ UNCHANGED <<file, editor, ledger, generator, threads, dedup, wrapper>>

\* session.delete(id)
SessionDelete(id) ==
    /\ ops < MaxOps
    /\ session' = Session_delete(session, ledger, id).S
    /\ last' = [op |-> "delete", id |-> id, ret |-> Session_delete(session, ledger, id).ret, raised |-> "none", pre |-> session, pre_ledger |-> ledger, file_before |-> file, base |-> last.base, trace |-> Append(last.trace, "delete")]
    /\ ops' = ops + 1
    /\ UNCHANGED <<file, editor, ledger, generator, threads, dedup, wrapper>>

\* session.commit(): order is the iteration order of deleted_entries, rnd
\* and lrnd are the bbids the collision loops of the ledger draw.
SessionCommit(order, rnd) ==
    /\ ops < MaxOps
    /\ \E staged \in {CommitStaged(ledger, session, order, rnd)} :
       \E sv \in {Ledger_save(staged, file)} :
       \E lrnd \in LoadDraws(sv.file) :
       \E ld \in {Ledger_load(sv.file, lrnd)} :
       \E res \in {Session_commit(session, sv, ld)} :
           /\ session' = res.S
           /\ ledger' = res.L
           /\ file' = res.file
           /\ last' = [op |-> "commit", raised |-> res.raised, calls |-> Session_commit_calls(session, sv, ld), pre |-> session, pre_ledger |-> ledger, file_before |-> file, base |-> IF res.raised = "none" THEN <<>> ELSE last.base, trace |-> Append(last.trace, "commit")]
    /\ ops' = ops + 1
    /\ UNCHANGED <<editor, generator, threads, dedup, wrapper>>

\* session.rollback()
SessionRollback ==
    /\ ops < MaxOps
    /\ session' = Session_rollback(session)
    /\ last' = [op |-> "rollback", raised |-> "none", pre |-> session, pre_ledger |-> ledger, file_before |-> file, base |-> last.base, trace |-> Append(last.trace, "rollback")]
    /\ ops' = ops + 1
    /\ UNCHANGED <<file, editor, ledger, generator, threads, dedup, wrapper>>

NextSession ==
    \/ \E c \in Contents, k \in {1, max_attempts - 1, max_attempts}, x \in SessionIds : SessionAdd(Directive(c, 0, 0), k, x)
    \/ \E c \in Contents, id \in SessionIds : SessionAddWithId(MutableDirective(Directive(c, 0, 0), id))
    \/ \E id \in DictKeys(ledger.existing_entries) : SessionTrack(id)
    \/ \E id \in DictKeys(session.existing_entries), c \in Contents : SessionEdit(id, c)
    \/ \E id \in SessionKnownIds \cup {UnknownId} : SessionDelete(id)
    \/ \E order \in Orders(session.deleted_entries) : \E rnd \in CommitDraws(session, ledger, order) : SessionCommit(order, rnd)
    \/ SessionRollback

SpecSession == InitSession /\ [][NextSession]_vars

\* ---------------------------------------------------------- deduplicator
\* An optional string that is None.
Absent == "<None>"

\* Account names, in the order sorted() puts them.
AccountOrder == <<"Assets:Checking", "Expenses:Food", "Liabilities:Credit">>
AccountRank(a) == CHOOSE i \in 1..Len(AccountOrder) : AccountOrder[i] = a

Amount(number, currency) == [number |-> number, currency |-> currency]
Posting(account, units) == [account |-> account, units |-> units]
Transaction(date, payee, narration, postings) == [date |-> date, payee |-> payee, narration |-> narration, postings |-> postings]

\* The sort keys in use: lambda x: x.date and lambda x: x.account.
KeyOf(x, key) == IF key = "date" THEN x.date ELSE AccountRank(x.account)

\* sorted(xs, key): stable, an element goes behind the elements whose key
\* is not greater.
RECURSIVE InsertStable(_, _, _)
InsertStable(x, sq, key) == IF sq = <<>> THEN <<x>> ELSE IF KeyOf(x, key) < KeyOf(Head(sq), key) THEN <<x>> \o sq ELSE <<Head(sq)>> \o InsertStable(x, Tail(sq), key)

RECURSIVE sorted(_, _)
sorted(xs, key) == IF xs = <<>> THEN <<>> ELSE InsertStable(xs[Len(xs)], sorted(SubSeq(xs, 1, Len(xs) - 1), key), key)

\* accounts.index(a)
IndexOf(sq, a) == CHOOSE i \in 1..Len(sq) : sq[i] = a /\ \A j \in 1..(i - 1) : sq[j] # a

\* SimilarEntryDeduplicator._compare_postings
compare_postings(postings_in, imported_postings_in) ==
    LET postings == sorted(postings_in, "account")
        imported_postings == sorted(imported_postings_in, "account")
        accounts == [i \in 1..Len(postings) |-> postings[i].account]
        accounts_imported == [i \in 1..Len(imported_postings) |-> imported_postings[i].account]
        amounts == [i \in 1..Len(postings) |-> postings[i].units]
        amounts_imported == [i \in 1..Len(imported_postings) |-> imported_postings[i].units]
    IN  IF Len(accounts_imported) = 1 /\ ~(\E i \in 1..Len(accounts) : accounts[i] = accounts_imported[1]) THEN FALSE
        ELSE IF Len(accounts_imported) > 1 /\ accounts_imported # accounts THEN FALSE
        ELSE IF Len(amounts_imported) = 1 /\ amounts[IndexOf(accounts, accounts_imported[1])] # amounts_imported[1] THEN FALSE
        ELSE IF Len(amounts_imported) > 1 /\ amounts # amounts_imported THEN FALSE
        ELSE TRUE

\* SimilarEntryDeduplicator._compare_optional_strings
compare_optional_strings(str_value, imported_str_value) ==
    (IF str_value = Absent THEN "" ELSE str_value) = (IF imported_str_value = Absent THEN "" ELSE imported_str_value)

\* SimilarEntryDeduplicator._comparator for two Transactions: the fields
\* date, payee, narration and postings, in this order.
SimilarEntry_comparator(entry, imported_entry) ==
    IF entry.date # imported_entry.date THEN FALSE
    ELSE IF ~compare_optional_strings(entry.payee, imported_entry.payee) THEN FALSE
    ELSE IF ~compare_optional_strings(entry.narration, imported_entry.narration) THEN FALSE
    ELSE IF ~compare_postings(entry.postings, imported_entry.postings) THEN FALSE
    ELSE TRUE

\* The configured regex-source-account and the pattern
\* ^(Liabilities:Credit|Assets:Checking) of the internal accounts.
source_account_match(a) == a \in {"Assets:Checking", "Liabilities:Credit"}
re_internal_account_match(a) == a \in {"Assets:Checking", "Liabilities:Credit"}

\* TransactionRecordSourceAccountExtractor.extract_one: the first account
\* that matches, "" when none does.
extract_one(entry) ==
    LET valid_accounts == SelectSeq([i \in 1..Len(entry.postings) |-> entry.postings[i].account], source_account_match)
    IN  IF Len(valid_accounts) >= 1 THEN valid_accounts[1] ELSE ""

Abs(n) == IF n < 0 THEN 0 - n ELSE n

\* InternalTransferDeduplicator._is_internal_transfer: "raise" is the
\* AssertionError for an imported entry without exactly one posting.
is_internal_transfer_OneDirection(entry, imported_entry, max_date_difference) ==
    LET account_entry == extract_one(entry)
        account_imported_entry == extract_one(imported_entry)
        duplicate_found == \E i \in 1..Len(entry.postings), j \in 1..Len(imported_entry.postings) :
            LET posting == entry.postings[i]
                imported_posting == imported_entry.postings[j]
            IN  /\ posting.units.currency = imported_posting.units.currency
                /\ posting.account = account_entry /\ imported_posting.account = account_imported_entry
                /\ posting.units.number + imported_posting.units.number = 0
                /\ imported_posting.units.number > 0 /\ imported_entry.date >= entry.date
    IN  IF Len(imported_entry.postings) # 1 THEN "raise"
        ELSE IF ~re_internal_account_match(account_entry) \/ ~re_internal_account_match(account_imported_entry) THEN "no"
        ELSE IF Abs(entry.date - imported_entry.date) > max_date_difference THEN "no"
        ELSE IF duplicate_found THEN "match" ELSE "no"

is_internal_transfer(entry, imported_entry, max_date_difference) ==
    LET account_entry == extract_one(entry)
        account_imported_entry == extract_one(imported_entry)
        duplicate_found == \E i \in 1..Len(entry.postings), j \in 1..Len(imported_entry.postings) :
            LET posting == entry.postings[i]
                imported_posting == imported_entry.postings[j]
            IN  /\ posting.units.currency = imported_posting.units.currency
                /\ posting.account = account_entry /\ imported_posting.account = account_imported_entry
                /\ posting.units.number + imported_posting.units.number = 0
                /\ \/ posting.units.number > 0 /\ entry.date >= imported_entry.date
                   \/ imported_posting.units.number > 0 /\ imported_entry.date >= entry.date
    IN  IF Len(imported_entry.postings) # 1 THEN "raise"
        ELSE IF ~re_internal_account_match(account_entry) \/ ~re_internal_account_match(account_imported_entry) THEN "no"
        ELSE IF Abs(entry.date - imported_entry.date) > max_date_difference THEN "no"
        ELSE IF duplicate_found THEN "match" ELSE "no"

\* self._comparator(entry, imported_entry) of the deduplicator with the
\* given policy.
comparator(policy, entry, imported_entry, max_date_difference) ==
    IF policy = "similar" THEN (IF SimilarEntry_comparator(entry, imported_entry) THEN "match" ELSE "no")
    ELSE is_internal_transfer(entry, imported_entry, max_date_difference)

\* beancount's iter_entry_dates over a date-sorted list: the entries dated
\* in [date_begin, date_end).
iter_entry_dates_EndInclusive(entries, date_begin, date_end) == SelectSeq(entries, LAMBDA x : date_begin <= x.date /\ x.date <= date_end)

iter_entry_dates(entries, date_begin, date_end) == SelectSeq(entries, LAMBDA x : date_begin <= x.date /\ x.date < date_end)

\* The inner loop of _find_duplicated_pairs from the i-th entry of the
\* window on: the index of the entry that matched (0 when none did), the
\* number of entries compared, and whether the comparator raised.
RECURSIVE scan(_, _, _, _, _)
scan(policy, window, i, imported_entry, max_date_difference) ==
    IF i > Len(window) THEN [match |-> 0, compared |-> Len(window), raised |-> FALSE]
    ELSE IF comparator(policy, window[i], imported_entry, max_date_difference) = "raise" THEN [match |-> 0, compared |-> i, raised |-> TRUE]
    ELSE IF comparator(policy, window[i], imported_entry, max_date_difference) = "match" THEN [match |-> i, compared |-> i, raised |-> FALSE]
    ELSE scan(policy, window, i + 1, imported_entry, max_date_difference)

\* BaseDeduplicator._find_duplicated_pairs: for every imported entry the
\* window it was compared with and the outcome of its scan.
find_duplicated_pairs(policy, entries, imported_entries, window_days_head, window_days_tail, max_date_difference) ==
    LET window_head == window_days_head
        window_tail == window_days_tail + 1
        sorted_entries == sorted(entries, "date")
    IN  [k \in 1..Len(imported_entries) |->
            LET window == iter_entry_dates(sorted_entries, imported_entries[k].date - window_head, imported_entries[k].date + window_tail)
            IN  [window |-> window, scan |-> scan(policy, window, 1, imported_entries[k], max_date_difference)]]

\* BaseDeduplicator.deduplicate
BaseDeduplicator_deduplicate_KeepsAll(policy, entries, imported_entries, window_days_head, window_days_tail, max_date_difference) ==
    LET scans == find_duplicated_pairs(policy, entries, imported_entries, window_days_head, window_days_tail, max_date_difference)
        matched == SelectSeq([k \in 1..Len(imported_entries) |-> k], LAMBDA k : scans[k].scan.match > 0)
        duplicated_entries == [i \in 1..Len(matched) |-> imported_entries[matched[i]]]
    IN  [raised |-> \E k \in 1..Len(scans) : scans[k].scan.raised, scans |-> scans, duplicated_entries |-> duplicated_entries, non_duplicated_entries |-> imported_entries]

BaseDeduplicator_deduplicate(policy, entries, imported_entries, window_days_head, window_days_tail, max_date_difference) ==
    LET scans == find_duplicated_pairs(policy, entries, imported_entries, window_days_head, window_days_tail, max_date_difference)
        matched == SelectSeq([k \in 1..Len(imported_entries) |-> k], LAMBDA k : scans[k].scan.match > 0)
        duplicated_entries == [i \in 1..Len(matched) |-> imported_entries[matched[i]]]
        non_duplicated_entries == SelectSeq(imported_entries, LAMBDA entry : ~\E i \in 1..Len(duplicated_entries) : duplicated_entries[i] = entry)
    IN  [raised |-> \E k \in 1..Len(scans) : scans[k].scan.raised, scans |-> scans, duplicated_entries |-> duplicated_entries, non_duplicated_entries |-> non_duplicated_entries]

\* Deduplicator.deduplicate: SimilarEntryDeduplicator(0, 0), then
\* InternalTransferDeduplicator on the entries the first one kept.
Deduplicator_deduplicate(entries, imported_entries, window_days_head, window_days_tail, max_date_difference) ==
    LET similar == BaseDeduplicator_deduplicate("similar", entries, imported_entries, 0, 0, max_date_difference)
        internal == BaseDeduplicator_deduplicate("internal", entries, similar.non_duplicated_entries, window_days_head, window_days_tail, max_date_difference)
    IN  [raised |-> similar.raised \/ internal.raised, scans |-> <<>>, duplicated_entries |-> similar.duplicated_entries \o internal.duplicated_entries, non_duplicated_entries |-> internal.non_duplicated_entries]

\* ---------------------------------------- specification: deduplicator
Dates == 1..MaxDate

\* One account debited, credited, or both; an expense; a transfer.
BatchPostings == {<<Posting("Assets:Checking", Amount(0 - 1, "USD"))>>, <<Posting("Liabilities:Credit", Amount(1, "USD"))>>, <<Posting("Assets:Checking", Amount(0 - 1, "USD")), Posting("Expenses:Food", Amount(1, "USD"))>>, <<Posting("Assets:Checking", Amount(0 - 1, "USD")), Posting("Liabilities:Credit", Amount(1, "USD"))>>}
BatchTransactions == {Transaction(d, "x", Absent, ps) : d \in Dates, ps \in BatchPostings}
Batches == UNION {[1..k -> BatchTransactions] : k \in 0..MaxEntries}
IsDateSorted(xs) == \A i, j \in 1..Len(xs) : i < j => xs[i].date <= xs[j].date

\* The arguments of one deduplicate call: existing entries sorted by date,
\* imported entries, and the constructor arguments of the deduplicator.
InitDedup ==
    /\ dedup \in {[entries |-> es, imported_entries |-> is, window_days_head |-> h, window_days_tail |-> t, max_date_difference |-> m] : es \in {b \in Batches : IsDateSorted(b)}, is \in Batches, h \in 0..MaxWindow, t \in 0..MaxWindow, m \in 0..MaxWindow}
    /\ wrapper = NoWrapper
    /\ file = <<>>
    /\ editor = NoEditor
    /\ ledger = NoLedger
    /\ session = NoSession
    /\ generator = {}
    /\ threads = NoThreads
    /\ ops = 0
    /\ last = NoOp

\* SimilarEntryDeduplicator(head, tail).deduplicate(entries, imported_entries)
\* or InternalTransferDeduplicator(head, tail, max).deduplicate(...)
BaseDeduplicate(policy) ==
    /\ ops = 0
    /\ \E res \in {BaseDeduplicator_deduplicate(policy, dedup.entries, dedup.imported_entries, dedup.window_days_head, dedup.window_days_tail, dedup.max_date_difference)} :
           last' = [op |-> "deduplicate", policy |-> policy, raised |-> res.raised, scans |-> res.scans, duplicated_entries |-> res.duplicated_entries, non_duplicated_entries |-> res.non_duplicated_entries, trace |-> <<>>, base |-> <<>>]
    /\ ops' = ops + 1
    /\ UNCHANGED <<file, editor, ledger, session, generator, threads, dedup, wrapper>>

\* Deduplicator(head, tail, max).deduplicate(entries, imported_entries)
ComposedDeduplicate ==
    /\ ops = 0
    /\ \E res \in {Deduplicator_deduplicate(dedup.entries, dedup.imported_entries, dedup.window_days_head, dedup.window_days_tail, dedup.max_date_difference)} :
           last' = [op |-> "deduplicate", policy |-> "composed", raised |-> res.raised, scans |-> res.scans, duplicated_entries |-> res.duplicated_entries, non_duplicated_entries |-> res.non_duplicated_entries, trace |-> <<>>, base |-> <<>>]
    /\ ops' = ops + 1
    /\ UNCHANGED <<file, editor, ledger, session, generator, threads, dedup, wrapper>>

NextDedup ==
    \/ BaseDeduplicate("similar")
    \/ BaseDeduplicate("internal")
    \/ ComposedDeduplicate

SpecDedup == InitDedup /\ [][NextDedup]_vars

\* ------------------------------------------ specification: comparator
Texts == {Absent, "", "x"}
ComparePostings == {Posting(a, Amount(n, "USD")) : a \in {"Assets:Checking", "Expenses:Food"}, n \in {1, 2}}
CompareTransactions == {Transaction(d, p, n, ps) : d \in Dates, p \in Texts, n \in Texts, ps \in UNION {[1..k -> ComparePostings] : k \in 0..MaxPostings}}

\* An existing and an imported transaction.
InitCompare ==
    /\ dedup \in {[entries |-> <<e>>, imported_entries |-> <<c>>] : e \in CompareTransactions, c \in CompareTransactions}
    /\ wrapper = NoWrapper
    /\ file = <<>>
    /\ editor = NoEditor
    /\ ledger = NoLedger
    /\ session = NoSession
    /\ generator = {}
    /\ threads = NoThreads
    /\ ops = 0
    /\ last = NoOp

\* SimilarEntryDeduplicator._comparator(entry, imported_entry)
Compare ==
    /\ ops = 0
    /\ last' = [op |-> "compare", ret |-> SimilarEntry_comparator(dedup.entries[1], dedup.imported_entries[1]), trace |-> <<>>, base |-> <<>>]
    /\ ops' = ops + 1
    /\ UNCHANGED <<file, editor, ledger, session, generator, threads, dedup, wrapper>>

NextCompare == Compare

SpecCompare == InitCompare /\ [][NextCompare]_vars

\* ------------------------------------ specification: internal transfer
\* Postings on the three accounts, in and out, and one in another currency.
TransferPostings == {Posting(a, Amount(n, "USD")) : a \in {"Assets:Checking", "Expenses:Food", "Liabilities:Credit"}, n \in {0 - 1, 1}} \cup {Posting("Assets:Checking", Amount(1, "EUR"))}
TransferTransactions == {Transaction(d, "x", Absent, ps) : d \in Dates, ps \in UNION {[1..k -> TransferPostings] : k \in 0..MaxPostings}}

\* Imported transactions: without a posting, with one posting, and with the
\* same posting twice.
ImportedTransfers == {Transaction(d, "x", Absent, ps) : d \in Dates, ps \in {<<>>} \cup {<<p>> : p \in TransferPostings} \cup {<<p, p>> : p \in TransferPostings}}

\* An existing and an imported transaction, and the maximum date gap.
InitTransfer ==
    /\ dedup \in {[entries |-> <<e>>, imported_entries |-> <<c>>, max_date_difference |-> m] : e \in TransferTransactions, c \in ImportedTransfers, m \in 0..MaxWindow}
    /\ wrapper = NoWrapper
    /\ file = <<>>
    /\ editor = NoEditor
    /\ ledger = NoLedger
    /\ session = NoSession
    /\ generator = {}
    /\ threads = NoThreads
    /\ ops = 0
    /\ last = NoOp

\* InternalTransferDeduplicator._comparator(entry, imported_entry)
InternalTransfer ==
    /\ ops = 0
    /\ last' = [op |-> "is_internal_transfer", ret |-> is_internal_transfer(dedup.entries[1], dedup.imported_entries[1], dedup.max_date_difference), trace |-> <<>>, base |-> <<>>]
    /\ ops' = ops + 1
    /\ UNCHANGED <<file, editor, ledger, session, generator, threads, dedup, wrapper>>

NextTransfer == InternalTransfer

SpecTransfer == InitTransfer /\ [][NextTransfer]_vars

\* ------------------------------------------- model: MutableTransaction
\* A metadata dict is a function from its keys to values. Dicts are
\* objects: heap[a] is the dict at address a, and a directive holds the
\* address of its meta dict, 0 for None. Strings, postings and
\* directives compare by value.
METADATA_BBID == "bbid"
MetaKeys == {"lineno", METADATA_BBID}
MetaValues == 1..MaxMetaValue
Dicts == UNION {[K -> MetaValues] : K \in SUBSET MetaKeys}
Narrations == {"a", "b"}
PostingAccounts == {"Assets:Cash", "Expenses:Food"}

\* The value of a directive: meta is <<>> for None and <<dict>> otherwise.
ValueOf(heap, obj) == [meta |-> IF obj.meta = 0 THEN <<>> ELSE <<heap[obj.meta]>>, narration |-> obj.narration, postings |-> obj.postings]

\* _from_immutable and _to_immutable: every field is carried over by
\* reference, except the directives and lists of directives (the
\* postings), which are converted one by one into a new list.
from_immutable(obj) == [meta |-> obj.meta, narration |-> obj.narration, postings |-> [i \in 1..Len(obj.postings) |-> obj.postings[i]]]
to_immutable_impl(obj) == [meta |-> obj.meta, narration |-> obj.narration, postings |-> [i \in 1..Len(obj.postings) |-> obj.postings[i]]]

\* deepcopy(directive): the meta dict is copied into a new object.
deepcopy(heap, directive) ==
    IF directive.meta = 0 THEN [heap |-> heap, copy |-> directive]
    ELSE [heap |-> Append(heap, heap[directive.meta]), copy |-> [directive EXCEPT !.meta = Len(heap) + 1]]

\* MutableDirective.__init__(directive, id); base is the value of the
\* directive at this moment.
MutableTransaction_init(heap, directive, id) ==
    LET backup == deepcopy(heap, directive)
    IN  [heap |-> backup.heap, directive |-> directive, mutable_directive |-> from_immutable(directive), original_directive |-> backup.copy, id |-> id, base |-> ValueOf(heap, directive)]

\* MutableDirective.to_immutable: the value of the directive returned.
MutableTransaction_to_immutable(w) ==
    LET updated_directive == ValueOf(w.heap, to_immutable_impl(w.mutable_directive))
        meta == IF updated_directive.meta = <<>> THEN <<>> ELSE updated_directive.meta[1]
        meta_copy == [k \in DOMAIN meta \cup {METADATA_BBID} |-> IF k = METADATA_BBID THEN w.id ELSE meta[k]]
    IN  IF w.id # 0 THEN [updated_directive EXCEPT !.meta = <<meta_copy>>]
        ELSE [updated_directive EXCEPT !.meta = <<meta>>]

\* MutableDirective.dirty
MutableTransaction_dirty(w) == ValueOf(w.heap, to_immutable_impl(w.mutable_directive)) # ValueOf(w.heap, w.original_directive)

\* MutableDirective.reset
MutableTransaction_reset(w) == [w EXCEPT !.mutable_directive = from_immutable(w.original_directive)]

\* ------------------------------------ specification: MutableTransaction
WrappedDirectives == {[meta |-> a, narration |-> n, postings |-> ps] : a \in {0, 1}, n \in Narrations, ps \in UNION {[1..k -> PostingAccounts] : k \in 1..MaxPostings}}

\* MutableTransaction(directive, id) for a directive with or without
\* metadata, with or without an id.
InitDirective ==
    /\ wrapper \in {MutableTransaction_init(<<m>>, d, id) : m \in Dicts, d \in WrappedDirectives, id \in {0, 1}}
    /\ file = <<>>
    /\ editor = NoEditor
    /\ ledger = NoLedger
    /\ session = NoSession
    /\ generator = {}
    /\ threads = NoThreads
    /\ dedup = NoDedup
    /\ ops = 0
    /\ last = NoOp

\* wrapper.narration = value
SetNarration(value) ==
    /\ ops < MaxEdits
    /\ wrapper' = [wrapper EXCEPT !.mutable_directive.narration = value]
    /\ last' = [op |-> "setattr", trace |-> <<>>, base |-> <<>>]
    /\ ops' = ops + 1
    /\ UNCHANGED <<file, editor, ledger, session, generator, threads, dedup>>

\* wrapper.postings[i].account = value
SetPostingAccount(i, value) ==
    /\ ops < MaxEdits
    /\ i \in 1..Len(wrapper.mutable_directive.postings)
    /\ wrapper' = [wrapper EXCEPT !.mutable_directive.postings[i] = value]
    /\ last' = [op |-> "setattr", trace |-> <<>>, base |-> <<>>]
    /\ ops' = ops + 1
    /\ UNCHANGED <<file, editor, ledger, session, generator, threads, dedup>>

\* wrapper.meta[key] = value
SetMetaItem(key, value) ==
    /\ ops < MaxEdits
    /\ wrapper.mutable_directive.meta # 0
    /\ \E a \in {wrapper.mutable_directive.meta} :
           wrapper' = [wrapper EXCEPT !.heap[a] = [k \in DOMAIN wrapper.heap[a] \cup {key} |-> IF k = key THEN value ELSE wrapper.heap[a][k]]]
    /\ last' = [op |-> "setitem", trace |-> <<>>, base |-> <<>>]
    /\ ops' = ops + 1
    /\ UNCHANGED <<file, editor, ledger, session, generator, threads, dedup>>

\* wrapper.reset()
Reset ==
    /\ ops < MaxEdits
    /\ wrapper' = MutableTransaction_reset(wrapper)
    /\ last' = [op |-> "reset", trace |-> <<>>, base |-> <<>>]
    /\ ops' = ops + 1
    /\ UNCHANGED <<file, editor, ledger, session, generator, threads, dedup>>

\* wrapper.to_immutable()
ToImmutable ==
    /\ ops < MaxEdits
    /\ last' = [op |-> "to_immutable", ret |-> MutableTransaction_to_immutable(wrapper), trace |-> <<>>, base |-> <<>>]
    /\ ops' = ops + 1
    /\ UNCHANGED <<file, editor, ledger, session, generator, threads, dedup, wrapper>>

NextDirective ==
    \/ \E value \in Narrations : SetNarration(value)
    \/ \E i \in 1..MaxPostings, value \in PostingAccounts : SetPostingAccount(i, value)
    \/ \E key \in MetaKeys, value \in MetaValues : SetMetaItem(key, value)
    \/ Reset
    \/ ToImmutable

SpecDirective == InitDirective /\ [][NextDirective]_vars

\* ------------------------------------------------------ claims: session
Committed == last.op = "commit"

\* C1: Session.commit() is all-or-nothing.  If it raises, the file is as it
\* was, the ledger holds no staged change and the session's staged
\* collections are as they were; if it returns, the ledger and the session
\* are clean.  The ledger holds nothing staged when commit is called, so
\* whatever is staged in it afterwards is of this transaction.
C1_CommitAllOrNothing ==
    (Committed /\ ~Ledger_dirty(last.pre_ledger)) =>
        IF last.raised # "none"
        THEN file = last.file_before /\ ~Ledger_dirty(ledger) /\ session = last.pre
        ELSE ~Ledger_dirty(ledger) /\ ~Session_dirty(session)

\* C2: after rollback() the file is unchanged, new_entries and
\* deleted_entries are empty, dirty() is false, and existing_entries holds
\* the IDs and field values it held before the staging began.
C2_RollbackRestores ==
    last.op = "rollback" =>
        /\ file = last.file_before
        /\ session.new_entries = <<>>
        /\ session.deleted_entries = {}
        /\ ~Session_dirty(session)
        /\ DictKeys(session.existing_entries) = DictKeys(last.base)
        /\ \A id \in DictKeys(last.base) : DictHas(session.existing_entries, id) => DictGet(session.existing_entries, id) = DictGet(last.base, id)

\* ------------------------------------------------ claims: text editor
SavedChanges == last.op = "save_changes"
SavedOk == SavedChanges /\ ~last.raised

\* Resolved position of the i-th change of the batch given to save_changes.
BatchPos(i) == get_position_tuple(last.batch[i], last.n_lines)

\* Two changes overlap when their half-open ranges share a line, or when
\* a zero-width change lies strictly inside the other's range.
SharesLine(p, q) ==
    \E l \in 0..MaxLines : p[1] <= l /\ l < p[2] /\ q[1] <= l /\ l < q[2]
StrictlyInside(p, q) == q[1] = q[2] /\ p[1] < q[1] /\ q[1] < p[2]

PairOverlaps(i, j) ==
    /\ last.batch[i].type # "APPEND" /\ last.batch[j].type # "APPEND"
    /\ \/ SharesLine(BatchPos(i), BatchPos(j))
       \/ StrictlyInside(BatchPos(i), BatchPos(j))
       \/ StrictlyInside(BatchPos(j), BatchPos(i))

BatchOverlaps ==
    \E i, j \in 1..Len(last.batch) : i < j /\ PairOverlaps(i, j)

BatchDoubleInsert ==
    \E i, j \in 1..Len(last.batch) :
        /\ i < j
        /\ last.batch[i].type = "INSERT" /\ last.batch[j].type = "INSERT"
        /\ BatchPos(i) = BatchPos(j)

\* The file has last.n_lines - 1 lines; position last.n_lines - 1 is the
\* position just past the last line.
BatchOutOfRange ==
    \E i \in 1..Len(last.batch) :
        /\ last.batch[i].type # "APPEND"
        /\ \/ BatchPos(i)[1] \notin 0..(last.n_lines - 1)
           \/ BatchPos(i)[2] \notin 0..(last.n_lines - 1)

IsOriginalLine(l) == l.t = "txt" /\ l.c <= MaxLines
IsContentLine(l) == l.t = "txt" /\ l.c > MaxLines

\* 0-indexed line i lies in the range of a Delete or Replace of the batch.
InRemovedRange(i) ==
    \E k \in 1..Len(last.batch) :
        /\ last.batch[k].type \in {"DELETE", "REPLACE"}
        /\ BatchPos(k)[1] <= i /\ i < BatchPos(k)[2]

\* The contents of the changes of a sequence, concatenated in its order.
RECURSIVE ContentsInOrder(_)
ContentsInOrder(chs) ==
    IF chs = <<>> THEN <<>>
    ELSE Head(chs).content \o ContentsInOrder(Tail(chs))

\* C4: for every batch that passes validation the written file holds the
\* content of every Insert, Replace and Append exactly once, in
\* resolved-position order, Append content after all original lines;
\* for every file length, including the empty file.
C4_EveryContentWrittenOnce ==
    SavedOk =>
        /\ SelectSeq(file, IsContentLine) = ContentsInOrder(editor.changes)
        /\ \A i, j \in 1..Len(file) :
               (IsOriginalLine(file[i]) /\
                \E k \in 1..Len(last.batch) :
                    /\ last.batch[k].type = "APPEND"
                    /\ file[j] = last.batch[k].content[1]) => i < j

\* C5: for every batch that passes validation, the original lines outside
\* all Delete and Replace ranges appear in the output exactly once, in
\* their original order, and no line inside such a range appears.
C5_UntouchedLinesKept ==
    SavedOk =>
        SelectSeq(file, IsOriginalLine)
            = SelectSeq(last.file_before, LAMBDA l : ~InRemovedRange(l.c - 1))

\* C5 witness: a valid batch of a Delete and another change was applied
\* to a file of which one line was removed and one kept.
C5_Witness ==
    /\ SavedOk
    /\ Len(last.batch) >= 2
    /\ \E k \in 1..Len(last.batch) : last.batch[k].type = "DELETE"
    /\ \E i, j \in 0..(Len(last.file_before) - 1) :
           InRemovedRange(i) /\ ~InRemovedRange(j)
    /\ Len(file) >= 2

\* ---------------------------------------------------- claims: ledger
Saved == last.op = "save"

\* The printed directives of a dict of entries, in its order.
RECURSIVE PrintedEntries(_)
PrintedEntries(d) == IF d = <<>> THEN <<>> ELSE EntryPrinter(Head(d).v) \o PrintedEntries(Tail(d))

\* C6: save() with k >= 2 staged new directives (and nothing else staged)
\* completes without error and the file gains all k printed directives,
\* each appended after the original content.
C6_SaveAppendsEveryNew ==
    (Saved /\ Len(last.pre.new_entries) >= 2 /\ last.pre.changed_entries = <<>> /\ last.pre.deleted_entries = <<>>)
        => (last.raised = "none" /\ file = last.file_before \o PrintedEntries(last.pre.new_entries))

\* C7: save() on a dirty ledger returns normally with dirty() false and
\* new, changed and deleted empty; every staged-new ID is in existing,
\* every staged-deleted ID is absent from existing, every replaced ID maps
\* to its replacement directive.
C7_SaveFoldsStaging ==
    (Saved /\ Ledger_dirty(last.pre)) =>
        /\ last.raised = "none"
        /\ ~Ledger_dirty(ledger)
        /\ DictKeys(last.pre.new_entries) \subseteq DictKeys(ledger.existing_entries)
        /\ DictKeys(last.pre.deleted_entries) \cap DictKeys(ledger.existing_entries) = {}
        /\ \A i \in 1..Len(last.pre.changed_entries) :
               /\ DictHas(ledger.existing_entries, last.pre.changed_entries[i].k)
               /\ DictGet(ledger.existing_entries, last.pre.changed_entries[i].k) = last.pre.changed_entries[i].v

\* The directive lines of a file carry pairwise distinct directives.
DistinctRecords(f) == \A i, j \in 1..Len(f) : (f[i].t = "dir" /\ f[j].t = "dir" /\ f[i] = f[j]) => i = j

\* f without the n lines that start at 1-indexed line b.
RemoveSpan(f, b, n) == SubSeq(f, 1, b - 1) \o SubSeq(f, b + n, Len(f))

\* C8: in add(new), save(), delete(x), save() with no load in between, for
\* whichever original record x (a record of the file spans three lines),
\* the second save removes exactly x's span and leaves every other line,
\* the record appended by the first save included, unchanged.
C8_DeleteAfterAddRemovesOnlySpan ==
    (/\ Saved
     /\ last.trace = <<"add", "save", "remove", "save">>
     /\ DistinctRecords(last.file_before)
     /\ last.pre.new_entries = <<>> /\ last.pre.changed_entries = <<>>
     /\ Len(last.pre.deleted_entries) = 1
     /\ last.pre.deleted_entries[1].v.lineno > 0)
        => file = RemoveSpan(last.file_before, last.pre.deleted_entries[1].v.lineno, 3)

\* C9: replace(id, d) for an id in existing returns that same id and
\* stages d in changed under it; after save() d is in existing under the
\* same id, the number of existing records is unchanged and no other ID
\* has been introduced.
C9_ReplaceKeepsIdentity ==
    /\ (last.op = "replace" /\ DictHas(last.pre.existing_entries, last.id)) =>
           /\ last.ret = last.id
           /\ DictHas(ledger.changed_entries, last.id)
    /\ (Saved /\ Len(last.pre.changed_entries) = 1 /\ last.pre.new_entries = <<>> /\ last.pre.deleted_entries = <<>>) =>
           /\ DictHas(ledger.existing_entries, last.pre.changed_entries[1].k)
           /\ DictGet(ledger.existing_entries, last.pre.changed_entries[1].k) = last.pre.changed_entries[1].v
           /\ DictKeys(ledger.existing_entries) = DictKeys(last.pre.existing_entries)

\* C10: every ID returned by add is distinct from every ID in existing,
\* new, changed or deleted at the call, so each add stages one more entry
\* in new, even for directives of identical content.
C10_AddReturnsFreshId ==
    last.op = "add" =>
        /\ last.ret \notin KnownIds(last.pre)
        /\ Len(ledger.new_entries) = Len(last.pre.new_entries) + 1

\* C11: identity is stable across reloads.  When add(d) returned id and the
\* save() after it returned, a ledger that loads the file holds d under id;
\* and loading the unchanged file again yields the IDs of the load before.
C11_IdentityStableAcrossReloads ==
    /\ (last.op = "load" /\ last.added # <<>>) =>
           /\ DictHas(ledger.existing_entries, last.added[1].id)
           /\ DictGet(ledger.existing_entries, last.added[1].id).c = last.added[1].entry.c
           /\ DictGet(ledger.existing_entries, last.added[1].id).bbid = last.added[1].entry.bbid
    /\ (last.op = "load" /\ last.trace = <<"load">>) => DictKeys(ledger.existing_entries) = DictKeys(last.pre.existing_entries)

\* --------------------------------------------------------- claims: load
Loaded == last.op = "load"

\* The directives of the file, and those among them without a bbid.
FileEntries == load_file(file, 1)
LinenosOf(d) == {d[i].v.lineno : i \in 1..Len(d)}
LinenosWithoutId == {FileEntries[i].lineno : i \in {j \in 1..Len(FileEntries) : FileEntries[j].bbid = 0}}

\* C12: after load(), new and deleted are empty, existing holds exactly
\* the records of the file, changed holds exactly the records that carried
\* no persisted ID, and dirty() is true iff some record lacked an ID.
C12_LoadStagesRecordsWithoutId ==
    Loaded =>
        /\ ledger.new_entries = <<>> /\ ledger.deleted_entries = <<>>
        /\ Len(ledger.existing_entries) = Len(FileEntries)
        /\ LinenosOf(ledger.existing_entries) = {FileEntries[i].lineno : i \in 1..Len(FileEntries)}
        /\ LinenosOf(ledger.changed_entries) = LinenosWithoutId
        /\ Ledger_dirty(ledger) <=> LinenosWithoutId # {}

\* C13: when two records of the file derive the same ID, after load() the
\* earlier record is in existing under the derived ID and the later one
\* is in existing and in changed under another, regenerated ID.
C13_CollisionKeepsBothRecords ==
    Loaded =>
        \A i, j \in 1..Len(FileEntries) :
            (i < j /\ stable_hash(FileEntries[i]) = stable_hash(FileEntries[j]) /\ \A k \in 1..(i - 1) : stable_hash(FileEntries[k]) # stable_hash(FileEntries[i])) =>
                /\ DictHas(ledger.existing_entries, stable_hash(FileEntries[i]))
                /\ DictGet(ledger.existing_entries, stable_hash(FileEntries[i])) = FileEntries[i]
                /\ \E id \in DictKeys(ledger.changed_entries) \ {stable_hash(FileEntries[i])} :
                       /\ DictHas(ledger.existing_entries, id)
                       /\ DictGet(ledger.existing_entries, id).lineno = FileEntries[j].lineno

\* C14: when the parser reports an error for the file, load() raises and
\* does not install the records it parsed.
C14_ParseErrorAbortsLoad ==
    (Loaded /\ parse_errors(file) # {}) => (last.raised # "none" /\ ledger = last.pre)

\* A stored range with the end-of-file sentinel resolved.
RangeEnd(r) == IF r[2] < 0 THEN Len(file) + 1 + r[2] ELSE r[2]

Starts == {ledger.existing_entries[i].v.lineno - 1 : i \in 1..Len(ledger.existing_entries)}

\* Where the record after the one starting at line b begins; the end of
\* the file for the last record.
NextStart(b) == IF \E x \in Starts : x > b THEN CHOOSE x \in Starts : x > b /\ \A y \in Starts : y > b => x <= y ELSE Len(file)

C16_ExistingHasLineRange ==
    (last.op \in {"add", "remove", "replace", "save"} /\ \A i \in 1..Len(last.trace) : last.trace[i] # "load") =>
        DictKeys(ledger.existing_entries) \subseteq DictKeys(ledger.entry_lineno_ranges)

\* ------------------------------------------------- claims: IDGenerator
\* C17: under any interleaving of generate, register, unregister and exists
\* calls of several threads, generate hands out and register accepts an ID
\* only if it was not in the issued set at that instant, and the issued set
\* is exactly the IDs obtained and not unregistered since: every ID has been
\* obtained once more than unregistered when it is in the set, and as often
\* as unregistered when it is not.
C17_IssuedOnlyWhenAbsent ==
    /\ last.op \in {"generate_return", "register_return"} => last.id \notin last.ids_before
    /\ \A id \in SessionIds : threads.owned[id] = IF id \in generator THEN 1 ELSE 0

\* An ID is obtained by one thread while another thread waits for the lock
\* in a generate call or in a register call for the same ID.
C17_Witness ==
    /\ last.op \in {"generate_return", "register_return"}
    /\ \E u \in Threads : u # last.t /\ threads.th[u].pc = "acquire" /\ (threads.th[u].op = "generate" \/ (threads.th[u].op = "register" /\ threads.th[u].arg = last.id))

\* C18: generate raises the exhaustion error only when every candidate it
\* drew, the last permitted one included, was in the issued set, and a
\* raising generate leaves the issued set unchanged.
C18_RaiseOnlyWhenAllUsed ==
    last.op = "generate_raise" => last.id_val \in last.ids_before /\ generator = last.ids_before

\* The threads whose latest call is a finished register(x) that was made
\* while x was not issued.
RegisterDone(x) == {t \in Threads : threads.th[t].op = "register" /\ threads.th[t].arg = x /\ threads.th[t].pc = "idle" /\ ~threads.th[t].pre_in}

\* C19: when the only calls made are k concurrent register(x) for an ID x
\* not yet issued, exactly one of them succeeds and the others raise; and a
\* register that raises leaves the issued set unchanged.
C19_OneRegisterSucceeds ==
    /\ \A x \in SessionIds : (RegisterDone(x) # {} /\ ops = Cardinality(RegisterDone(x))) =>
           /\ Cardinality({t \in RegisterDone(x) : threads.th[t].res = "ok"}) = 1
           /\ \A t \in RegisterDone(x) : threads.th[t].res \in {"ok", "raised"}
           /\ x \in generator
    /\ last.op = "register_raise" => last.id \in last.ids_before /\ generator = last.ids_before

\* Several threads called register(x) before any of them had added x, and
\* all of them have finished.
C19_Witness ==
    \E x \in SessionIds : Cardinality(RegisterDone(x)) >= 2 /\ ops = Cardinality(RegisterDone(x))

\* The threads whose latest call is a finished unregister(x) that was made
\* while x was issued.
UnregisterDone(x) == {t \in Threads : threads.th[t].op = "unregister" /\ threads.th[t].arg = x /\ threads.th[t].pc = "idle" /\ threads.th[t].pre_in}

\* C20: unregister(x) returns True exactly when it finds x in the issued
\* set, and then x is no longer in it; it returns False and changes nothing
\* otherwise; it never ends any other way.  When the only calls made are the
\* one that issued x and k concurrent unregister(x), exactly one returns True.
C20_UnregisterReturnsPresence ==
    /\ last.op = "unregister_true" => last.id \in last.ids_before /\ generator = last.ids_before \ {last.id}
    /\ last.op = "unregister_false" => last.id \notin last.ids_before /\ generator = last.ids_before
    /\ \A t \in Threads : (threads.th[t].op = "unregister" /\ threads.th[t].pc = "idle") => threads.th[t].res = (IF threads.th[t].saw THEN "true" ELSE "false")
    /\ \A x \in SessionIds : (UnregisterDone(x) # {} /\ ops = Cardinality(UnregisterDone(x)) + 1) =>
           /\ Cardinality({t \in UnregisterDone(x) : threads.th[t].res = "true"}) = 1
           /\ x \notin generator

\* Several threads called unregister(x) while x was issued, and all of them
\* have finished.
C20_Witness ==
    \E x \in SessionIds : Cardinality(UnregisterDone(x)) >= 2 /\ ops = Cardinality(UnregisterDone(x)) + 1

\* ------------------------------------- claims: session and the allocator
\* C21: every ID the Ledger holds in existing after load is registered in
\* the ID generator it shares with its Sessions.
C21_LoadRegistersExistingIds ==
    (last.op \in {"none", "commit"} /\ ledger # NoLedger) => DictKeys(ledger.existing_entries) \subseteq generator

\* The last operation was Session.add of a MutableDirective that carries an id.
AddedWithId == last.op = "add" /\ last.trace # <<>> /\ last.trace[Len(last.trace)] = "add_with_id"

\* C22: Session.add of a record that carries an ID x raises the duplicate-ID
\* error and leaves the staging unchanged whenever x is staged in this
\* session or known to the ID generator; and no add overwrites an entry of
\* new_entries.
C22_AddWithKnownIdRaises ==
    /\ (AddedWithId /\ (last.id \in generator \/ DictHas(last.pre.new_entries, last.id))) => (last.raised = "ValueError" /\ session = last.pre)
    /\ (last.op = "add" /\ last.raised = "none" /\ ops > 0 /\ session # NoSession) => ~DictHas(last.pre.new_entries, last.ret)

\* ------------------------------------------------ claims: commit protocol
\* How often a statement occurs in a sequence of executed statements.
CountOf(calls, name) == Cardinality({i \in 1..Len(calls) : calls[i] = name})

\* The place of a statement in the protocol of commit.
RankOf(name) == IF name \in {"add", "delete", "replace"} THEN 0 ELSE IF name = "save" THEN 1 ELSE IF name = "load" THEN 2 ELSE IF name = "assert" THEN 3 ELSE 4

\* C23: every execution of Session.commit() calls Ledger.add once per
\* staged-new record, Ledger.delete once per staged deletion and
\* Ledger.replace once per dirty overlay (none for a clean one), then
\* Ledger.save() exactly once, then Ledger.load() exactly once, then the
\* cleanliness assertion; the staging collections are cleared only after
\* the assertion has passed.
C23_CommitProtocol ==
    (Committed /\ ~Ledger_dirty(last.pre_ledger)) =>
        /\ CountOf(last.calls, "add") = Len(last.pre.new_entries)
        /\ CountOf(last.calls, "delete") = Cardinality(last.pre.deleted_entries)
        /\ CountOf(last.calls, "replace") = Cardinality({i \in 1..Len(last.pre.existing_entries) : MutableDirective_dirty(last.pre.existing_entries[i].v)})
        /\ CountOf(last.calls, "save") = 1
        /\ CountOf(last.calls, "load") = 1
        /\ CountOf(last.calls, "assert") = 1
        /\ \A i, j \in 1..Len(last.calls) : i < j => RankOf(last.calls[i]) <= RankOf(last.calls[j])
        /\ CountOf(last.calls, "clear") = (IF last.raised = "none" THEN 1 ELSE 0)
        /\ last.raised # "none" => session = last.pre

C25_AddChangesOnlyNew ==
    (last.op = "add" /\ session = NoSession) =>
        /\ file = last.file_before
        /\ ledger.existing_entries = last.pre.existing_entries
        /\ ledger.changed_entries = last.pre.changed_entries
        /\ ledger.deleted_entries = last.pre.deleted_entries
        /\ ledger.entry_lineno_ranges = last.pre.entry_lineno_ranges
        /\ \A id \in DictKeys(last.pre.new_entries) \ {last.ret} : DictHas(ledger.new_entries, id) /\ DictGet(ledger.new_entries, id) = DictGet(last.pre.new_entries, id)
        /\ DictKeys(ledger.new_entries) = DictKeys(last.pre.new_entries) \cup {last.ret}
        /\ DictGet(ledger.new_entries, last.ret).c = last.entry.c
        /\ (~DictHas(last.pre.existing_entries, stable_hash(last.entry)) => DictGet(ledger.new_entries, last.ret) = last.entry)
        /\ Ledger_dirty(ledger)

\* add was called on a ledger that holds records and staged changes, with a
\* directive that collides with a record.
C25_Witness ==
    /\ last.op = "add" /\ session = NoSession
    /\ DictHas(last.pre.existing_entries, stable_hash(last.entry))
    /\ Len(last.pre.deleted_entries) + Len(last.pre.changed_entries) > 0

\* C26: deleting a record right after staging it is no net change:
\* delete(add(d)) returns True and existing, new, changed, deleted and the
\* value of dirty are what they were before the add.
C26_DeleteUndoesAdd ==
    (last.op = "remove" /\ last.pre_add # <<>>) =>
        /\ last.ret = TRUE
        /\ ledger.existing_entries = last.pre_add[1].existing_entries
        /\ ledger.new_entries = last.pre_add[1].new_entries
        /\ ledger.changed_entries = last.pre_add[1].changed_entries
        /\ ledger.deleted_entries = last.pre_add[1].deleted_entries
        /\ Ledger_dirty(ledger) = Ledger_dirty(last.pre_add[1])

\* C27: Ledger.delete of an ID that is in none of the four maps returns
\* False, Ledger.replace of an ID that is not in existing returns None,
\* and both leave the file and the four maps unchanged.
C27_UnknownIdIsNoOp ==
    /\ (last.op = "remove" /\ last.id \notin KnownIds(last.pre)) => (last.ret = FALSE /\ last.raised = "none" /\ ledger = last.pre /\ file = last.file_before)
    /\ (last.op = "replace" /\ ~DictHas(last.pre.existing_entries, last.id)) => (last.ret = 0 /\ last.raised = "none" /\ ledger = last.pre /\ file = last.file_before)

\* replace was called with an ID that is staged as new only or staged for
\* deletion.
C27_Witness ==
    /\ last.op = "replace"
    /\ ~DictHas(last.pre.existing_entries, last.id)
    /\ DictHas(last.pre.deleted_entries, last.id) \/ DictHas(last.pre.new_entries, last.id)
    /\ Len(last.pre.existing_entries) > 0

\* -------------------------------------------------- claims: deduplicator
Deduplicated == last.op = "deduplicate" /\ ~last.raised

\* The existing entry e is dated in [c.date - head, c.date + tail].
InWindow(e, c, head, tail) == c.date - head <= e.date /\ e.date <= c.date + tail

\* Some existing entry in the window of c satisfies the comparator.
Marks(policy, c, head, tail) == \E i \in 1..Len(dedup.entries) : InWindow(dedup.entries[i], c, head, tail) /\ comparator(policy, dedup.entries[i], c, dedup.max_date_difference) = "match"

\* C28: a deduplicator classifies a candidate c as duplicate iff some
\* existing entry dated in [c.date - window_head, c.date + window_tail]
\* satisfies the comparator; entries dated outside the window are never
\* compared with c, and the scan for c stops at its first match.
C28_DuplicateIffMatchInWindow ==
    (Deduplicated /\ last.policy # "composed") =>
        \A k \in 1..Len(dedup.imported_entries) :
            /\ last.scans[k].scan.match > 0 <=> Marks(last.policy, dedup.imported_entries[k], dedup.window_days_head, dedup.window_days_tail)
            /\ (\E j \in 1..Len(last.duplicated_entries) : last.duplicated_entries[j] = dedup.imported_entries[k]) <=> Marks(last.policy, dedup.imported_entries[k], dedup.window_days_head, dedup.window_days_tail)
            /\ \A i \in 1..last.scans[k].scan.compared : InWindow(last.scans[k].window[i], dedup.imported_entries[k], dedup.window_days_head, dedup.window_days_tail)
            /\ last.scans[k].scan.match > 0 => last.scans[k].scan.compared = last.scans[k].scan.match
            /\ \A i \in 1..(last.scans[k].scan.compared - 1) : comparator(last.policy, last.scans[k].window[i], dedup.imported_entries[k], dedup.max_date_difference) # "match"
            /\ last.scans[k].scan.match = 0 => last.scans[k].scan.compared = Cardinality({i \in 1..Len(dedup.entries) : InWindow(dedup.entries[i], dedup.imported_entries[k], dedup.window_days_head, dedup.window_days_tail)})

\* The scan of one candidate stopped at a match before the end of its
\* window, and an existing entry lay outside the window of a candidate.
C28_Witness ==
    /\ Deduplicated /\ last.policy # "composed"
    /\ \E k \in 1..Len(dedup.imported_entries) : last.scans[k].scan.match > 0 /\ last.scans[k].scan.compared < Len(last.scans[k].window)
    /\ \E k \in 1..Len(dedup.imported_entries) : Len(last.scans[k].window) < Len(dedup.entries)

\* C29: deduplicate partitions the candidates: every candidate is in
\* exactly one of the two returned lists, as often as in the input, and the
\* sizes of the lists sum to the number of candidates; the composed
\* Deduplicator accepts a candidate iff neither the similar-entry policy
\* nor the internal-transfer policy marks it.
C29_DeduplicatePartitions ==
    Deduplicated =>
        /\ Len(last.duplicated_entries) + Len(last.non_duplicated_entries) = Len(dedup.imported_entries)
        /\ \A k \in 1..Len(dedup.imported_entries) :
               /\ CountOf(last.duplicated_entries, dedup.imported_entries[k]) + CountOf(last.non_duplicated_entries, dedup.imported_entries[k]) = CountOf(dedup.imported_entries, dedup.imported_entries[k])
               /\ CountOf(last.duplicated_entries, dedup.imported_entries[k]) = 0 \/ CountOf(last.non_duplicated_entries, dedup.imported_entries[k]) = 0
               /\ last.policy = "composed" => (CountOf(last.non_duplicated_entries, dedup.imported_entries[k]) > 0 <=> (~Marks("similar", dedup.imported_entries[k], 0, 0) /\ ~Marks("internal", dedup.imported_entries[k], dedup.window_days_head, dedup.window_days_tail)))

\* The composed Deduplicator returned; the similar-entry policy marked one
\* candidate, the internal-transfer policy alone another.
C29_Witness ==
    /\ Deduplicated /\ last.policy = "composed"
    /\ \E k \in 1..Len(dedup.imported_entries) : Marks("similar", dedup.imported_entries[k], 0, 0)
    /\ \E k \in 1..Len(dedup.imported_entries) : ~Marks("similar", dedup.imported_entries[k], 0, 0) /\ Marks("internal", dedup.imported_entries[k], dedup.window_days_head, dedup.window_days_tail)

\* An absent text and the empty text are the same text.
NormalText(t) == IF t = Absent THEN "" ELSE t

\* C30: the similar-entry comparator reports two transactions as a match
\* iff their dates are equal, their payees and their narrations are equal
\* once an absent value counts as the empty string, and they have the same
\* (account, amount) postings, each as often, in whatever order.
C30_SimilarIffEqualPostings ==
    last.op = "compare" =>
        (last.ret <=>
            /\ dedup.entries[1].date = dedup.imported_entries[1].date
            /\ NormalText(dedup.entries[1].payee) = NormalText(dedup.imported_entries[1].payee)
            /\ NormalText(dedup.entries[1].narration) = NormalText(dedup.imported_entries[1].narration)
            /\ \A p \in ComparePostings : CountOf(dedup.entries[1].postings, p) = CountOf(dedup.imported_entries[1].postings, p))

\* -------------------------------------------- claims: internal transfer
\* The existing record's source-account posting is an outflow on an
\* internal account and the candidate's only posting is the opposite
\* inflow on an internal account.
OutflowIndex(e, c) == {i \in 1..Len(e.postings) : e.postings[i].account = extract_one(e) /\ e.postings[i].units.currency = c.postings[1].units.currency /\ e.postings[i].units.number = 0 - c.postings[1].units.number}
TransferCase ==
    /\ last.op = "is_internal_transfer"
    /\ Len(dedup.imported_entries[1].postings) = 1
    /\ dedup.imported_entries[1].postings[1].units.number > 0
    /\ re_internal_account_match(dedup.imported_entries[1].postings[1].account)
    /\ re_internal_account_match(extract_one(dedup.entries[1]))
    /\ OutflowIndex(dedup.entries[1], dedup.imported_entries[1]) # {}

\* The outflow side as a single-posting candidate.
OutflowSide(e, c) == Transaction(e.date, e.payee, e.narration, <<e.postings[CHOOSE i \in OutflowIndex(e, c) : TRUE]>>)

\* C31: when an existing record holding the outflow and a single-posting
\* candidate holding the inflow, dated the same day or later, are a match,
\* the inflow side as the existing record and the outflow side as the
\* single-posting candidate are a match too; when the inflow side is dated
\* strictly before the outflow side, neither orientation is a match.
C31_TransferVerdictSymmetric ==
    TransferCase =>
        LET e == dedup.entries[1]
            c == dedup.imported_entries[1]
            swapped == is_internal_transfer(c, OutflowSide(e, c), dedup.max_date_difference)
        IN  /\ (c.date >= e.date /\ last.ret = "match") => swapped = "match"
            /\ c.date < e.date => (last.ret # "match" /\ swapped # "match")

C31_Witness ==
    /\ TransferCase
    /\ dedup.imported_entries[1].date > dedup.entries[1].date
    /\ Len(dedup.entries[1].postings) = 2
    /\ last.ret = "match"

\* C32: a call of the internal-transfer policy raises no error, marks only
\* candidates that have exactly one posting, and keeps every candidate
\* that has none or several among the accepted entries.
C32_OtherCandidatesAccepted ==
    (last.op = "deduplicate" /\ last.policy = "internal") =>
        /\ ~last.raised
        /\ \A i \in 1..Len(last.duplicated_entries) : Len(last.duplicated_entries[i].postings) = 1
        /\ \A k \in 1..Len(dedup.imported_entries) : Len(dedup.imported_entries[k].postings) # 1 => \E i \in 1..Len(last.non_duplicated_entries) : last.non_duplicated_entries[i] = dedup.imported_entries[k]

\* ------------------------------------------ claims: MutableTransaction
\* C33: to_immutable() of a wrapper none of whose fields differs from the
\* wrapped directive returns a directive equal to the wrapped one,
\* whatever its metadata is and whether or not the wrapper has an id.
C33_RoundTrip ==
    (last.op = "to_immutable" /\ ValueOf(wrapper.heap, wrapper.mutable_directive) = wrapper.base) => last.ret = wrapper.base

\* ------------------------------------- claims: positions of a ChangeSet
\* C34: a negative position p at which a change begins resolves to the
\* number of lines of the file plus p, so that -1 is the last line, and a
\* batch passes validation only if every change other than an Append
\* begins at a line of the file.
C34_NegativePositionsFromFileLength ==
    SavedChanges =>
        \A k \in 1..Len(last.batch) : last.batch[k].type # "APPEND" =>
            /\ last.batch[k].position[1] < 0 => BatchPos(k)[1] = Len(last.file_before) + last.batch[k].position[1]
            /\ ~last.raised => BatchPos(k)[1] \in 0..(Len(last.file_before) - 1)

\* ------------------------------------------- claims: save and staging
\* C35: when Ledger.save raises, the file is as it was before the call and
\* the existing, new, changed and deleted maps are as they were before
\* the call, so the ledger is still dirty.
C35_FailedSaveChangesNothing ==
    (Saved /\ last.raised # "none") =>
        /\ file = last.file_before
        /\ ledger.existing_entries = last.pre.existing_entries
        /\ ledger.new_entries = last.pre.new_entries
        /\ ledger.changed_entries = last.pre.changed_entries
        /\ ledger.deleted_entries = last.pre.deleted_entries
        /\ Ledger_dirty(ledger)

\* C36: in every state of a Ledger the key sets of new, deleted and
\* existing are pairwise disjoint and every key of changed is a key of
\* existing.
C36_StagingKeysDisjoint ==
    /\ DictKeys(ledger.new_entries) \cap DictKeys(ledger.deleted_entries) = {}
    /\ DictKeys(ledger.new_entries) \cap DictKeys(ledger.existing_entries) = {}
    /\ DictKeys(ledger.deleted_entries) \cap DictKeys(ledger.existing_entries) = {}
    /\ DictKeys(ledger.changed_entries) \subseteq DictKeys(ledger.existing_entries)

\* ----------------------------------- claims: discarded staged records
\* C37: after rollback(), and after Session.delete of a staged-new ID, the
\* IDs of the staged-new records that were discarded are not in the
\* generator's set of issued IDs.
C37_DiscardReleasesId ==
    /\ last.op = "rollback" => DictKeys(last.pre.new_entries) \cap generator = {}
    /\ (last.op = "delete" /\ DictHas(last.pre.new_entries, last.id) /\ ~DictHas(session.new_entries, last.id)) => last.id \notin generator

\* -------------------------------- claims: one verdict per existing record
\* The existing entries in the window of c that satisfy the comparator.
MatchedBy(policy, c) == {i \in 1..Len(dedup.entries) : InWindow(dedup.entries[i], c, dedup.window_days_head, dedup.window_days_tail) /\ comparator(policy, dedup.entries[i], c, dedup.max_date_difference) = "match"}
IsDuplicate(c) == \E i \in 1..Len(last.duplicated_entries) : last.duplicated_entries[i] = c

\* C38: when two distinct candidates of one deduplicate call each match
\* only the same single existing record, at most one of them is
\* classified duplicate.
C38_OneVerdictPerExistingRecord ==
    (Deduplicated /\ last.policy # "composed") =>
        \A j, k \in 1..Len(dedup.imported_entries) :
            (/\ dedup.imported_entries[j] # dedup.imported_entries[k]
             /\ Cardinality(MatchedBy(last.policy, dedup.imported_entries[j])) = 1
             /\ MatchedBy(last.policy, dedup.imported_entries[j]) = MatchedBy(last.policy, dedup.imported_entries[k]))
                => ~(IsDuplicate(dedup.imported_entries[j]) /\ IsDuplicate(dedup.imported_entries[k]))

\* C39: in every state of a MutableDirective dirty() is true exactly when
\* the directive it materializes differs from the base directive captured
\* when it was wrapped; right after reset() every field has its base value
\* and dirty() is false; the captured base is never altered.
C39_DirtyIffDiffersFromBase ==
    wrapper # NoWrapper =>
        /\ MutableTransaction_dirty(wrapper) <=> ValueOf(wrapper.heap, to_immutable_impl(wrapper.mutable_directive)) # wrapper.base
        /\ last.op = "reset" => (ValueOf(wrapper.heap, to_immutable_impl(wrapper.mutable_directive)) = wrapper.base /\ ~MutableTransaction_dirty(wrapper))
        /\ ValueOf(wrapper.heap, wrapper.original_directive) = wrapper.base

\* ------------------------------------------- claims: calls terminate
\* The lock is held only by a thread inside a `with self._lock` block.
LockHeldInside == threads.lock # 0 => threads.th[threads.lock].pc \notin {"idle", "acquire"}

\* C40: under fair scheduling every call of generate, register, unregister
\* or exists ends, by return or by an exception; generate draws at most
\* max_attempts candidates; and no thread outside a call holds the lock,
\* also after generate or register has raised.
C40_EveryCallEnds ==
    /\ [](\A t \in Threads : threads.th[t].n_attempt <= max_attempts)
    /\ []LockHeldInside
    /\ \A t \in Threads : (threads.th[t].pc # "idle") ~> (threads.th[t].pc = "idle")

\* A call has just raised while another thread waits for the lock.
C40_Witness ==
    /\ last.op \in {"generate_raise", "register_raise"}
    /\ \E u \in Threads : u # last.t /\ threads.th[u].pc = "acquire"

====
